---- MODULE Spec2Model ----
(***************************************************************************)
(* iTask: the schedule expression parser (lib/parser.py).                  *)
(*                                                                         *)
(* A schedule expression is a Python str, modelled as a sequence of        *)
(* one-character strings.  The regular expressions of ScheduleParser.parse *)
(* are modelled by matchers over these sequences that return the groups    *)
(* re.match would capture (re.match anchors at the start of the string     *)
(* only, so text after the matched prefix is ignored, as in the code).     *)
(***************************************************************************)
EXTENDS Integers, Sequences, FiniteSets, TLC

VARIABLES
    form,        \* the parameters the expression is built from (as the tests' f-strings do)
    expression,  \* the str handed to ScheduleParser.parse
    result,      \* what the call returned or raised; [type |-> "none"] before the call
    pc,          \* "call" before parse runs, "done" after it returned or raised
    config_file, \* the content of ~/.itask/config.json
    files,       \* the other files: the user's scripts, the copies in ~/.itask/scripts,
                 \* the plists in ~/Library/LaunchAgents and their backups in ~/.itask/plists
    loaded,      \* the labels loaded into launchd
    trace,       \* the calls with an effect that the last CLI command made, in order
    commands,    \* the number of CLI commands run so far
    parser       \* the tables the ScheduleParser class holds, which every call reads through self

\* what the parser and the plist generator never touch
sysVars == <<config_file, files, loaded, trace, commands>>

vars == <<form, expression, result, pc, config_file, files, loaded, trace, commands, parser>>

----------------------------------------------------------------------------
(* Characters and the str methods the parser uses.                         *)

LowerLetters == <<"a", "b", "c", "d", "e", "f", "g", "h", "i", "j", "k", "l", "m", "n", "o", "p", "q", "r", "s", "t", "u", "v", "w", "x", "y", "z">>
UpperLetters == <<"A", "B", "C", "D", "E", "F", "G", "H", "I", "J", "K", "L", "M", "N", "O", "P", "Q", "R", "S", "T", "U", "V", "W", "X", "Y", "Z">>
DigitChars == <<"0", "1", "2", "3", "4", "5", "6", "7", "8", "9">>

Range(seq) == {seq[i] : i \in 1..Len(seq)}

\* \d, \s and \w of the re module, on the ASCII characters of the model
Digit == Range(DigitChars)
Whitespace == {" ", "\t", "\n"}
Word == Range(LowerLetters) \cup Range(UpperLetters) \cup Digit \cup {"_"}

\* str.lower() on one character
LowerChar(c) ==
    IF \E i \in 1..Len(UpperLetters) : UpperLetters[i] = c
    THEN LowerLetters[CHOOSE i \in 1..Len(UpperLetters) : UpperLetters[i] = c]
    ELSE c

\* str.upper() on one character
UpperChar(c) ==
    IF \E i \in 1..Len(LowerLetters) : LowerLetters[i] = c
    THEN UpperLetters[CHOOSE i \in 1..Len(LowerLetters) : LowerLetters[i] = c]
    ELSE c

lower(s) == [i \in 1..Len(s) |-> LowerChar(s[i])]

\* the character at index i (1-based), "" past either end
At(s, i) == IF i \in 1..Len(s) THEN s[i] ELSE ""

RECURSIVE SkipWhile(_, _, _)
\* the first index >= p whose character is not in set (Len(s) + 1 when none)
SkipWhile(s, p, set) ==
    IF p <= Len(s) /\ s[p] \in set THEN SkipWhile(s, p + 1, set) ELSE p

RECURSIVE SkipBack(_, _, _)
\* the last index <= p whose character is not in set (0 when none)
SkipBack(s, p, set) ==
    IF p >= 1 /\ s[p] \in set THEN SkipBack(s, p - 1, set) ELSE p

\* str.strip(): leading and trailing whitespace removed
strip(s) == SubSeq(s, SkipWhile(s, 1, Whitespace), SkipBack(s, Len(s), Whitespace))

RECURSIVE int(_)
\* int() of a string of decimal digits
int(digits) ==
    IF Len(digits) = 0 THEN 0
    ELSE int(SubSeq(digits, 1, Len(digits) - 1)) * 10
         + ((CHOOSE i \in 1..10 : DigitChars[i] = digits[Len(digits)]) - 1)

RECURSIVE str(_)
\* str() of a non-negative int, as the f-strings of the error messages format it
str(n) ==
    IF n < 10 THEN <<DigitChars[n + 1]>>
    ELSE str(n \div 10) \o <<DigitChars[(n % 10) + 1]>>

----------------------------------------------------------------------------
(* The class tables.                                                       *)

\* the table with the alias thurs given friday's number
WEEKDAYS_ThursTypo ==
    (<<"s", "u", "n", "d", "a", "y">> :> 0) @@
    (<<"s", "u", "n">> :> 0) @@
    (<<"m", "o", "n", "d", "a", "y">> :> 1) @@
    (<<"m", "o", "n">> :> 1) @@
    (<<"t", "u", "e", "s", "d", "a", "y">> :> 2) @@
    (<<"t", "u", "e">> :> 2) @@
    (<<"t", "u", "e", "s">> :> 2) @@
    (<<"w", "e", "d", "n", "e", "s", "d", "a", "y">> :> 3) @@
    (<<"w", "e", "d">> :> 3) @@
    (<<"t", "h", "u", "r", "s", "d", "a", "y">> :> 4) @@
    (<<"t", "h", "u">> :> 4) @@
    (<<"t", "h", "u", "r">> :> 4) @@
    (<<"t", "h", "u", "r", "s">> :> 5) @@
    (<<"f", "r", "i", "d", "a", "y">> :> 5) @@
    (<<"f", "r", "i">> :> 5) @@
    (<<"s", "a", "t", "u", "r", "d", "a", "y">> :> 6) @@
    (<<"s", "a", "t">> :> 6)

WEEKDAYS ==
    (<<"s", "u", "n", "d", "a", "y">> :> 0) @@
    (<<"s", "u", "n">> :> 0) @@
    (<<"m", "o", "n", "d", "a", "y">> :> 1) @@
    (<<"m", "o", "n">> :> 1) @@
    (<<"t", "u", "e", "s", "d", "a", "y">> :> 2) @@
    (<<"t", "u", "e">> :> 2) @@
    (<<"t", "u", "e", "s">> :> 2) @@
    (<<"w", "e", "d", "n", "e", "s", "d", "a", "y">> :> 3) @@
    (<<"w", "e", "d">> :> 3) @@
    (<<"t", "h", "u", "r", "s", "d", "a", "y">> :> 4) @@
    (<<"t", "h", "u">> :> 4) @@
    (<<"t", "h", "u", "r">> :> 4) @@
    (<<"t", "h", "u", "r", "s">> :> 4) @@
    (<<"f", "r", "i", "d", "a", "y">> :> 5) @@
    (<<"f", "r", "i">> :> 5) @@
    (<<"s", "a", "t", "u", "r", "d", "a", "y">> :> 6) @@
    (<<"s", "a", "t">> :> 6)

\* INTERVAL_UNITS with the multiplier of "h" mistyped (360 for 3600)
INTERVAL_UNITS_HourTypo ==
    (<<"s">> :> 1) @@ (<<"m">> :> 60) @@ (<<"h">> :> 360) @@ (<<"d">> :> 86400)

INTERVAL_UNITS ==
    (<<"s">> :> 1) @@ (<<"m">> :> 60) @@ (<<"h">> :> 3600) @@ (<<"d">> :> 86400)

\* the ScheduleParser class once its body has run: the two tables are attributes
\* of the class, shared by every instance and looked up through self at each use
ScheduleParser == [WEEKDAYS |-> WEEKDAYS, INTERVAL_UNITS |-> INTERVAL_UNITS]

----------------------------------------------------------------------------
(* Regular expressions.  A match is [matched, groups]; groups[i] is        *)
(* match.group(i), and <<>> stands for a group that did not take part.     *)
(* A position 0 means the pattern failed before reaching it.               *)

NoMatch == [matched |-> FALSE, groups |-> <<>>]
Match(groups) == [matched |-> TRUE, groups |-> groups]

\* a literal at position p: the position after it, or 0
Lit(s, p, text) ==
    IF p # 0 /\ p + Len(text) - 1 <= Len(s) /\ SubSeq(s, p, p + Len(text) - 1) = text
    THEN p + Len(text) ELSE 0

\* \s+ at position p: the position after the run, or 0
Spaces(s, p) ==
    IF p # 0 /\ SkipWhile(s, p, Whitespace) > p THEN SkipWhile(s, p, Whitespace) ELSE 0

\* \w+ at position p: the position after the (greedy) run, or 0
Words(s, p) ==
    IF p # 0 /\ SkipWhile(s, p, Word) > p THEN SkipWhile(s, p, Word) ELSE 0

\* \s+at\s+ at position p
AtKeyword(s, p) == Spaces(s, Lit(s, Spaces(s, p), <<"a", "t">>))

\* the time written (\d{1,2}):(\d{2})$: no seconds group, and nothing after the
\* minutes
TimeGroups_NoSeconds(s, p) ==
    LET hlen == IF At(s, p) \in Digit /\ At(s, p + 1) \in Digit /\ At(s, p + 2) = ":" THEN 2
                ELSE IF At(s, p) \in Digit /\ At(s, p + 1) = ":" THEN 1
                ELSE 0
        m == p + hlen + 1
    IN  IF p # 0 /\ hlen > 0 /\ At(s, m) \in Digit /\ At(s, m + 1) \in Digit
           /\ Len(s) = m + 1
        THEN <<SubSeq(s, p, p + hlen - 1), SubSeq(s, m, m + 1), <<>>>>
        ELSE <<>>

\* (\d{1,2}):(\d{2})(?::(\d{2}))? at position p: <<hour, minute, seconds>>, or
\* <<>> when it does not match
TimeGroups(s, p) ==
    LET hlen == IF At(s, p) \in Digit /\ At(s, p + 1) \in Digit /\ At(s, p + 2) = ":" THEN 2
                ELSE IF At(s, p) \in Digit /\ At(s, p + 1) = ":" THEN 1
                ELSE 0
        m == p + hlen + 1
        sec == IF At(s, m + 2) = ":" /\ At(s, m + 3) \in Digit /\ At(s, m + 4) \in Digit
               THEN SubSeq(s, m + 3, m + 4) ELSE <<>>
    IN  IF p # 0 /\ hlen > 0 /\ At(s, m) \in Digit /\ At(s, m + 1) \in Digit
        THEN <<SubSeq(s, p, p + hlen - 1), SubSeq(s, m, m + 1), sec>>
        ELSE <<>>

\* the interval pattern written r'every\s+(\d+)([smhd])': it matches only a known
\* unit, so an unknown one falls through to the later grammars
interval_attempt_KnownUnit(s) ==
    LET p == Spaces(s, Lit(s, 1, <<"e", "v", "e", "r", "y">>))
        d == SkipWhile(s, p, Digit)
    IN  IF p = 0 \/ d = p \/ At(s, d) \notin {"s", "m", "h", "d"} THEN NoMatch
        ELSE Match(<<SubSeq(s, p, d - 1), <<At(s, d)>>>>)

\* re.match(r'every\s+(\d+)(\w+)', expression): \d+ is greedy and gives back its
\* last digit to \w+ when no word character follows the digits
interval_attempt(s) ==
    LET p == Spaces(s, Lit(s, 1, <<"e", "v", "e", "r", "y">>))
        d == SkipWhile(s, p, Digit)
        w == SkipWhile(s, d, Word)
    IN  IF p = 0 \/ d = p THEN NoMatch
        ELSE IF w > d THEN Match(<<SubSeq(s, p, d - 1), SubSeq(s, d, w - 1)>>)
        ELSE IF d - p >= 2 THEN Match(<<SubSeq(s, p, d - 2), SubSeq(s, d - 1, d - 1)>>)
        ELSE NoMatch

\* re.match(r'(?:daily\s+)?at\s+(\d{1,2}):(\d{2})(?::(\d{2}))?', expression)
daily_match(s) ==
    LET skip == Spaces(s, Lit(s, 1, <<"d", "a", "i", "l", "y">>))
        p == Spaces(s, Lit(s, IF skip # 0 THEN skip ELSE 1, <<"a", "t">>))
        g == TimeGroups(s, p)
    IN  IF g = <<>> THEN NoMatch ELSE Match(g)

\* re.match(r'(\d{1,2})(?:st|nd|rd|th)?\s+at\s+(\d{1,2}):(\d{2})(?::(\d{2}))?', expression)
day_match(s) ==
    LET dlen == IF At(s, 1) \in Digit /\ At(s, 2) \in Digit THEN 2
                ELSE IF At(s, 1) \in Digit THEN 1 ELSE 0
        q == 1 + dlen
        suffix == IF <<At(s, q), At(s, q + 1)>> \in {<<"s", "t">>, <<"n", "d">>, <<"r", "d">>, <<"t", "h">>}
                  THEN q + 2 ELSE q
        g == TimeGroups(s, AtKeyword(s, suffix))
    IN  IF dlen = 0 \/ g = <<>> THEN NoMatch ELSE Match(<<SubSeq(s, 1, dlen)>> \o g)

\* re.match(r'(\w+)-(\w+)\s+at\s+(\d{1,2}):(\d{2})(?::(\d{2}))?', expression)
weekday_range_match(s) ==
    LET e1 == Words(s, 1)
        b2 == Lit(s, e1, <<"-">>)
        e2 == Words(s, b2)
        g == TimeGroups(s, AtKeyword(s, e2))
    IN  IF g = <<>> THEN NoMatch
        ELSE Match(<<SubSeq(s, 1, e1 - 1), SubSeq(s, b2, e2 - 1)>> \o g)

\* re.match(r'(\w+)\s+at\s+(\d{1,2}):(\d{2})(?::(\d{2}))?', expression)
weekday_match(s) ==
    LET e1 == Words(s, 1)
        g == TimeGroups(s, AtKeyword(s, e1))
    IN  IF g = <<>> THEN NoMatch ELSE Match(<<SubSeq(s, 1, e1 - 1)>> \o g)

----------------------------------------------------------------------------
(* Results.  A raised ValueError is [type |-> "error", error, detail]: its *)
(* message is the fixed text `error` followed by the interpolated value    *)
(* `detail` (a str).                                                       *)

ValueError(error, detail) == [type |-> "error", error |-> error, detail |-> detail]
Interval(seconds) == [type |-> "interval", schedule |-> [seconds |-> seconds]]
\* a calendar result; a Python value carries its type, so `list` records whether the
\* schedule is a list of entries (isinstance(schedule, list)) or one entry (a dict)
Calendar(schedule) == [type |-> "calendar", list |-> FALSE, schedule |-> schedule]
CalendarList(schedules) == [type |-> "calendar", list |-> TRUE, schedule |-> schedules]
None == [type |-> "none"]

\* _validate_time with both upper bounds off by one (hour <= 24, minute <= 60)
_validate_time_OffByOne(hour, minute) ==
    IF ~(0 <= hour /\ hour <= 24)
    THEN ValueError("Invalid time format: hour must be 0-23, got ", str(hour))
    ELSE IF ~(0 <= minute /\ minute <= 60)
    THEN ValueError("Invalid time format: minute must be 0-59, got ", str(minute))
    ELSE None

\* _validate_time: None, or the ValueError it raises
_validate_time(hour, minute) ==
    IF ~(0 <= hour /\ hour <= 23)
    THEN ValueError("Invalid time format: hour must be 0-23, got ", str(hour))
    ELSE IF ~(0 <= minute /\ minute <= 59)
    THEN ValueError("Invalid time format: minute must be 0-59, got ", str(minute))
    ELSE None

_parse_interval(match) ==
    LET value == int(match.groups[1])
        unit == match.groups[2]
    IN  IF unit \notin DOMAIN parser.INTERVAL_UNITS
        THEN ValueError("Invalid interval unit: ", unit)
        ELSE Interval(value * parser.INTERVAL_UNITS[unit])

_parse_daily(match) ==
    LET hour == int(match.groups[1])
        minute == int(match.groups[2])
    IN  IF _validate_time(hour, minute) # None THEN _validate_time(hour, minute)
        ELSE Calendar([Hour |-> hour, Minute |-> minute])

\* _parse_weekday looking the weekday up before it validates the time
_parse_weekday_NameFirst(match) ==
    LET weekday_str == lower(match.groups[1])
        hour == int(match.groups[2])
        minute == int(match.groups[3])
    IN  IF weekday_str \notin DOMAIN parser.WEEKDAYS
        THEN ValueError("Invalid weekday: ", weekday_str)
        ELSE IF _validate_time(hour, minute) # None THEN _validate_time(hour, minute)
        ELSE Calendar([Weekday |-> parser.WEEKDAYS[weekday_str], Hour |-> hour, Minute |-> minute])

_parse_weekday(match) ==
    LET weekday_str == lower(match.groups[1])
        hour == int(match.groups[2])
        minute == int(match.groups[3])
    IN  IF _validate_time(hour, minute) # None THEN _validate_time(hour, minute)
        ELSE IF weekday_str \notin DOMAIN parser.WEEKDAYS
        THEN ValueError("Invalid weekday: ", weekday_str)
        ELSE Calendar([Weekday |-> parser.WEEKDAYS[weekday_str], Hour |-> hour, Minute |-> minute])

\* the loop written `for current in range(start_num, end_num + 1)`: no wraparound
WeekdayLoop_NoWrap(schedules, current, end_num, hour, minute) ==
    schedules \o [i \in 1..(end_num - current + 1) |->
                    [Weekday |-> current + i - 1, Hour |-> hour, Minute |-> minute]]

RECURSIVE WeekdayLoop(_, _, _, _, _)
\* the `while True` loop of _parse_weekday_range, from the state (schedules, current)
WeekdayLoop(schedules, current, end_num, hour, minute) ==
    LET appended == Append(schedules, [Weekday |-> current, Hour |-> hour, Minute |-> minute])
    IN  IF current = end_num THEN appended
        ELSE WeekdayLoop(appended, (current + 1) % 7, end_num, hour, minute)

\* _parse_weekday_range rejecting a range only when both of its endpoints are
\* unknown (`and` for `or`); an unknown endpoint then fails the table lookup,
\* a KeyError
_parse_weekday_range_BothUnknown(match) ==
    LET start_day == lower(match.groups[1])
        end_day == lower(match.groups[2])
        hour == int(match.groups[3])
        minute == int(match.groups[4])
    IN  IF _validate_time(hour, minute) # None THEN _validate_time(hour, minute)
        ELSE IF start_day \notin DOMAIN parser.WEEKDAYS /\ end_day \notin DOMAIN parser.WEEKDAYS
        THEN ValueError("Invalid weekday range: ", start_day \o <<"-">> \o end_day)
        ELSE IF start_day \notin DOMAIN parser.WEEKDAYS THEN [type |-> "error", error |-> "KeyError", detail |-> start_day]
        ELSE IF end_day \notin DOMAIN parser.WEEKDAYS THEN [type |-> "error", error |-> "KeyError", detail |-> end_day]
        ELSE CalendarList(WeekdayLoop(<<>>, parser.WEEKDAYS[start_day], parser.WEEKDAYS[end_day], hour, minute))

_parse_weekday_range(match) ==
    LET start_day == lower(match.groups[1])
        end_day == lower(match.groups[2])
        hour == int(match.groups[3])
        minute == int(match.groups[4])
    IN  IF _validate_time(hour, minute) # None THEN _validate_time(hour, minute)
        ELSE IF start_day \notin DOMAIN parser.WEEKDAYS \/ end_day \notin DOMAIN parser.WEEKDAYS
        THEN ValueError("Invalid weekday range: ", start_day \o <<"-">> \o end_day)
        ELSE CalendarList(WeekdayLoop(<<>>, parser.WEEKDAYS[start_day], parser.WEEKDAYS[end_day], hour, minute))

\* _parse_day_of_month with the lower bound of the day off by one (0 <= day)
_parse_day_of_month_ZeroDay(match) ==
    LET day == int(match.groups[1])
        hour == int(match.groups[2])
        minute == int(match.groups[3])
    IN  IF _validate_time(hour, minute) # None THEN _validate_time(hour, minute)
        ELSE IF ~(0 <= day /\ day <= 31)
        THEN ValueError("Invalid day of month: ", str(day))
        ELSE Calendar([Day |-> day, Hour |-> hour, Minute |-> minute])

_parse_day_of_month(match) ==
    LET day == int(match.groups[1])
        hour == int(match.groups[2])
        minute == int(match.groups[3])
    IN  IF _validate_time(hour, minute) # None THEN _validate_time(hour, minute)
        ELSE IF ~(1 <= day /\ day <= 31)
        THEN ValueError("Invalid day of month: ", str(day))
        ELSE Calendar([Day |-> day, Hour |-> hour, Minute |-> minute])

\* the empty check written `not expression` alone
IsEmpty_NoStrip(text) == Len(text) = 0

\* `not expression or not expression.strip()`
IsEmpty(text) == Len(text) = 0 \/ Len(strip(text)) = 0

\* the normalization written `expression.lower()` alone
Normalize_NoStrip(text) == lower(text)

\* the normalization written `expression.strip()` alone
Normalize_NoLower(text) == strip(text)

\* `expression = expression.strip().lower()`
Normalize(text) == lower(strip(text))

\* the interval branch of parse, taken when interval_attempt matched
IntervalBranch(match) ==
    IF match.groups[2] \notin DOMAIN parser.INTERVAL_UNITS
    THEN ValueError("Invalid interval unit: ", match.groups[2])
    ELSE _parse_interval(match)

\* the shortcuts tested with expression.startswith(...)
Dispatch_ShortcutPrefix(s) ==
    IF Lit(s, 1, <<"h", "o", "u", "r", "l", "y">>) # 0 THEN Interval(3600)
    ELSE IF Lit(s, 1, <<"m", "i", "n", "u", "t", "e", "l", "y">>) # 0 THEN Interval(60)
    ELSE IF interval_attempt(s).matched THEN IntervalBranch(interval_attempt(s))
    ELSE IF daily_match(s).matched THEN _parse_daily(daily_match(s))
    ELSE IF day_match(s).matched THEN _parse_day_of_month(day_match(s))
    ELSE IF weekday_range_match(s).matched THEN _parse_weekday_range(weekday_range_match(s))
    ELSE IF weekday_match(s).matched THEN _parse_weekday(weekday_match(s))
    ELSE ValueError("Invalid schedule format: ", s)

\* the weekday grammars tried before the day-of-month grammar
Dispatch_WeekdayFirst(s) ==
    IF s = <<"h", "o", "u", "r", "l", "y">> THEN Interval(3600)
    ELSE IF s = <<"m", "i", "n", "u", "t", "e", "l", "y">> THEN Interval(60)
    ELSE IF interval_attempt(s).matched THEN IntervalBranch(interval_attempt(s))
    ELSE IF daily_match(s).matched THEN _parse_daily(daily_match(s))
    ELSE IF weekday_range_match(s).matched THEN _parse_weekday_range(weekday_range_match(s))
    ELSE IF weekday_match(s).matched THEN _parse_weekday(weekday_match(s))
    ELSE IF day_match(s).matched THEN _parse_day_of_month(day_match(s))
    ELSE ValueError("Invalid schedule format: ", s)

\* parse after the empty check, on the normalized expression
Dispatch(s) ==
    IF s = <<"h", "o", "u", "r", "l", "y">> THEN Interval(3600)
    ELSE IF s = <<"m", "i", "n", "u", "t", "e", "l", "y">> THEN Interval(60)
    ELSE IF interval_attempt(s).matched THEN IntervalBranch(interval_attempt(s))
    ELSE IF daily_match(s).matched THEN _parse_daily(daily_match(s))
    ELSE IF day_match(s).matched THEN _parse_day_of_month(day_match(s))
    ELSE IF weekday_range_match(s).matched THEN _parse_weekday_range(weekday_range_match(s))
    ELSE IF weekday_match(s).matched THEN _parse_weekday(weekday_match(s))
    ELSE ValueError("Invalid schedule format: ", s)

\* ScheduleParser.parse
parse(text) ==
    IF IsEmpty(text) THEN ValueError("Schedule expression cannot be empty", <<>>)
    ELSE Dispatch(Normalize(text))

\* _parse_weekday taking the number with self.WEEKDAYS.pop(weekday_str): the
\* name leaves the table when a weekday expression has parsed
self_after_parse_Pop(self, text) ==
    IF parse(text).type = "calendar" /\ ~parse(text).list
                                     /\ "Weekday" \in DOMAIN parse(text).schedule
    THEN LET weekday_str == lower(weekday_match(Normalize(text)).groups[1])
         IN  [self EXCEPT !.WEEKDAYS = [name \in DOMAIN self.WEEKDAYS \ {weekday_str}
                                            |-> self.WEEKDAYS[name]]]
    ELSE self

\* the tables that parse(text) leaves: parse and its helpers read them with `in`
\* and `[...]` only, build every dict they return anew, and store nothing in
\* self or in the class, on the returning paths as on the raising ones
self_after_parse(self, text) == self

\* a raised KeyError
KeyError(key) == [type |-> "keyerror", key |-> key]

\* dict.get(key): [some |-> FALSE] stands for Python's None
Get(dict, key) ==
    IF key \in DOMAIN dict THEN [some |-> TRUE, value |-> dict[key]] ELSE [some |-> FALSE]

\* str() of the value of dict.get, as an f-string formats it
FormatOptional(got) == IF got.some THEN got.value ELSE "None"

\* the dict without one key: {k: v for k, v in dict.items() if k != key}
Without(dict, key) == [k \in DOMAIN dict \ {key} |-> dict[k]]

\* parse_raw checking the calendar fields as parse does
parse_raw_CheckTime(raw_dict) ==
    LET schedule_type == Get(raw_dict, "type")
    IN  IF schedule_type.some /\ schedule_type.value = "interval"
        THEN IF "seconds" \in DOMAIN raw_dict
             THEN Interval(raw_dict["seconds"])
             ELSE KeyError("seconds")
        ELSE IF schedule_type.some /\ schedule_type.value = "calendar"
        THEN IF "Hour" \in DOMAIN raw_dict /\ raw_dict["Hour"] > 23
             THEN ValueError("Invalid time format: hour must be 0-23, got ", str(raw_dict["Hour"]))
             ELSE Calendar(Without(raw_dict, "type"))
        ELSE ValueError("Invalid schedule type: ", FormatOptional(schedule_type))

\* ScheduleParser.parse_raw; the type is compared as a whole str, so it is kept
\* a TLA+ string
parse_raw(raw_dict) ==
    LET schedule_type == Get(raw_dict, "type")
    IN  IF schedule_type.some /\ schedule_type.value = "interval"
        THEN IF "seconds" \in DOMAIN raw_dict
             THEN Interval(raw_dict["seconds"])
             ELSE KeyError("seconds")
        ELSE IF schedule_type.some /\ schedule_type.value = "calendar"
        THEN Calendar(Without(raw_dict, "type"))
        ELSE ValueError("Invalid schedule type: ", FormatOptional(schedule_type))

----------------------------------------------------------------------------
(* PlistGenerator.  A Python int has no width, and the plist writer checks *)
(* one: the ints of a task's schedule are decimal numerals (the digits of  *)
(* "%d" % value, after "-" when negative), which have none either.  A      *)
(* task's field `list` records isinstance(task.schedule, list).  An        *)
(* Optional field is [some |-> FALSE] for None.                            *)

\* the dict {}
EmptyDict == [k \in {} |-> <<>>]

Some(value) == [some |-> TRUE, value |-> value]
Nothing == [some |-> FALSE]

\* TaskConfig(name=..., script_path=..., schedule_type=..., schedule=..., **options)
\* made at the time 0: the label is generated, the other fields have their
\* defaults
TaskConfig(name, schedule_type, list, schedule, options) ==
    [name |-> name, script_path |-> "/scripts/" \o name \o ".sh",
     schedule_type |-> schedule_type, list |-> list, schedule |-> schedule,
     enabled |-> TRUE, label |-> "com.itask." \o name,
     working_directory |-> options.working_directory, environment |-> options.environment,
     log_stdout |-> options.log_stdout, log_stderr |-> options.log_stderr,
     keep_alive |-> options.keep_alive, run_at_load |-> options.run_at_load,
     script_copied |-> TRUE, created_at |-> 0, last_modified |-> 0]

\* the numeral of a non-negative int
Numeral(n) == str(n)

DigitValue(c) == (CHOOSE i \in 1..10 : DigitChars[i] = c) - 1

\* a < b, for the numerals of two non-negative ints
MagnitudeLess(a, b) ==
    \/ Len(a) < Len(b)
    \/ /\ Len(a) = Len(b)
       /\ \E i \in 1..Len(a) :
            /\ SubSeq(a, 1, i - 1) = SubSeq(b, 1, i - 1)
            /\ DigitValue(a[i]) < DigitValue(b[i])

\* plistlib writes an int only when -1 << 63 <= value < 1 << 64
TwoTo64 == <<"1", "8", "4", "4", "6", "7", "4", "4", "0", "7", "3", "7", "0", "9", "5", "5", "1", "6", "1", "6">>
TwoTo63Plus1 == <<"9", "2", "2", "3", "3", "7", "2", "0", "3", "6", "8", "5", "4", "7", "7", "5", "8", "0", "9">>
InPlistRange(numeral) ==
    IF numeral[1] = "-" THEN MagnitudeLess(Tail(numeral), TwoTo63Plus1)
    ELSE MagnitudeLess(numeral, TwoTo64)

OverflowError(value) == [type |-> "error", error |-> "OverflowError", detail |-> value]
TypeError(message) == [type |-> "error", error |-> "TypeError", detail |-> message]

\* the keys of a schedule entry in the order the writer sorts them
SortedKeys == <<"Day", "Hour", "Minute", "Weekday", "seconds">>

\* the ints of one dict that the writer refuses, in its order
RefusedInDict(dict) ==
    SelectSeq([i \in 1..Len(SortedKeys) |->
                  IF SortedKeys[i] \in DOMAIN dict THEN dict[SortedKeys[i]] ELSE <<"0">>],
              LAMBDA numeral : ~InPlistRange(numeral))

RECURSIVE RefusedInList(_)
RefusedInList(entries) ==
    IF Len(entries) = 0 THEN <<>>
    ELSE RefusedInDict(Head(entries)) \o RefusedInList(Tail(entries))

\* plistlib.loads(plistlib.dumps(plist_dict, fmt=plistlib.FMT_XML)): the dict the
\* written plist holds, or the OverflowError of the first int the writer refuses
dumps(plist_dict, list) ==
    LET refused ==
            IF "StartInterval" \in DOMAIN plist_dict
            THEN IF InPlistRange(plist_dict["StartInterval"]) THEN <<>>
                 ELSE <<plist_dict["StartInterval"]>>
            ELSE IF list THEN RefusedInList(plist_dict["StartCalendarInterval"])
            ELSE RefusedInDict(plist_dict["StartCalendarInterval"])
    IN  IF refused # <<>> THEN OverflowError(refused[1])
        ELSE [type |-> "plist", list |-> list, plist |-> plist_dict]

\* lines 42-63 of generate: the keys that do not depend on the schedule
Settings(task, log_dir) ==
    (IF task.working_directory.some /\ task.working_directory.value # ""
     THEN "WorkingDirectory" :> task.working_directory.value ELSE <<>>)
    @@ (IF task.environment.some /\ DOMAIN task.environment.value # {}
        THEN "EnvironmentVariables" :> task.environment.value ELSE <<>>)
    @@ ("StandardOutPath" :>
            IF task.log_stdout.some /\ task.log_stdout.value # ""
            THEN task.log_stdout.value ELSE log_dir \o "/" \o task.name \o ".log")
    @@ ("StandardErrorPath" :>
            IF task.log_stderr.some /\ task.log_stderr.value # ""
            THEN task.log_stderr.value ELSE log_dir \o "/" \o task.name \o ".err.log")
    @@ ("RunAtLoad" :> task.run_at_load)
    @@ ("KeepAlive" :> task.keep_alive)

\* PlistGenerator.generate: the plist it returns, or the error it raises
generate(task, log_dir) ==
    LET plist_dict == ("Label" :> task.label) @@ ("ProgramArguments" :> <<task.script_path>>)
    IN  IF task.schedule_type = "interval"
        THEN IF task.list THEN TypeError("list indices must be integers or slices, not str")
             ELSE IF "seconds" \notin DOMAIN task.schedule THEN KeyError("seconds")
             ELSE dumps(plist_dict @@ ("StartInterval" :> task.schedule["seconds"])
                            @@ Settings(task, log_dir), FALSE)
        ELSE IF task.schedule_type = "calendar"
        THEN dumps(plist_dict @@ ("StartCalendarInterval" :> task.schedule)
                       @@ Settings(task, log_dir), task.list)
        ELSE ValueError("Invalid schedule_type: ", task.schedule_type)

----------------------------------------------------------------------------
(* Config.  The registry is the content of config.json; json.dump and      *)
(* json.load give back the dicts, lists, strs, ints and bools they are     *)
(* given.  Each method is the pair of the exception it raises (None when   *)
(* it returns) and the file it leaves.                                     *)

\* Config._ensure_config_file: the file after construction
DefaultConfig == [version |-> "1.0", tasks |-> EmptyDict]

\* an exception of the file system
OSError == [type |-> "error", error |-> "OSError", detail |-> <<>>]

\* dict.update(updates)
Update(dict, updates) ==
    [k \in DOMAIN dict \cup DOMAIN updates |->
        IF k \in DOMAIN updates THEN updates[k] ELSE dict[k]]

\* Config._read_config
_read_config(file) == file

\* Config._write_config: written is FALSE when writing the temp file or renaming it
\* raises; the temp file is then removed, config.json is as before and the
\* exception is raised again
_write_config(file, config, written) ==
    IF written THEN [raised |-> None, file |-> config]
    ELSE [raised |-> OSError, file |-> file]

\* Config.add_task without the test for an existing name
Config_add_task_Overwrite(file, task_config, written) ==
    LET config == _read_config(file)
    IN  _write_config(file,
                      [config EXCEPT !.tasks = Update(config.tasks, task_config.name :> task_config)],
                      written)

\* Config.add_task; task_config.to_dict() is the record of the task
Config_add_task(file, task_config, written) ==
    LET config == _read_config(file)
    IN  IF task_config.name \in DOMAIN config.tasks
        THEN [raised |-> ValueError("Task '" \o task_config.name \o "' already exists", <<>>),
              file |-> file]
        ELSE _write_config(file,
                           [config EXCEPT !.tasks = Update(config.tasks, task_config.name :> task_config)],
                           written)

\* Config.get_task
Config_get_task(file, name) == Get(_read_config(file).tasks, name)

\* Config.task_exists
Config_task_exists(file, name) == name \in DOMAIN _read_config(file).tasks

\* Config.task_count
Config_task_count(file) == Cardinality(DOMAIN _read_config(file).tasks)

\* Config.remove_task
Config_remove_task(file, name, written) ==
    LET config == _read_config(file)
    IN  IF name \notin DOMAIN config.tasks
        THEN [raised |-> ValueError("Task '" \o name \o "' not found", <<>>), file |-> file]
        ELSE _write_config(file, [config EXCEPT !.tasks = Without(config.tasks, name)], written)

\* Config.update_task merging into config["tasks"].setdefault(name, {}), with no
\* test for the name
Config_update_task_SetDefault(file, name, updates, now, written) ==
    LET config == _read_config(file)
        task == IF name \in DOMAIN config.tasks THEN config.tasks[name] ELSE EmptyDict
    IN  _write_config(file,
                      [config EXCEPT !.tasks =
                            Update(config.tasks,
                                   name :> Update(task, Update(updates, "last_modified" :> now)))],
                      written)

\* Config.update_task; now is datetime.now().isoformat()
Config_update_task(file, name, updates, now, written) ==
    LET config == _read_config(file)
    IN  IF name \notin DOMAIN config.tasks
        THEN [raised |-> ValueError("Task '" \o name \o "' not found", <<>>), file |-> file]
        ELSE _write_config(file,
                           [config EXCEPT !.tasks[name] =
                                Update(config.tasks[name], Update(updates, "last_modified" :> now))],
                           written)

----------------------------------------------------------------------------
(* ITaskCLI.  A path is its str; a script path is given by its directory,  *)
(* stem and suffix.  A file is [content, executable].  A command works on  *)
(* the system st = [config, files, loaded, trace] and gives its return     *)
(* code, or the exception that leaves it, with the system it leaves.  env  *)
(* holds what the environment decides: the failures of the file system     *)
(* and of launchctl, the line typed on stdin, the time.                    *)

Path(dir, stem, suffix) == [dir |-> dir, stem |-> stem, suffix |-> suffix]
PathName(path) == path.stem \o path.suffix
PathStr(path) == path.dir \o "/" \o PathName(path)

HomeDir == "/Users/me"
ConfigDir == HomeDir \o "/.itask"
ScriptsDir == ConfigDir \o "/scripts"
PlistsDir == ConfigDir \o "/plists"
LogsDir == ConfigDir \o "/logs"
LaunchAgentsDir == HomeDir \o "/Library/LaunchAgents"

\* LaunchdManager.get_plist_path
get_plist_path(label) == LaunchAgentsDir \o "/" \o label \o ".plist"

File(content, executable) == [content |-> content, executable |-> executable]

\* the user's scripts: two of the same file name, the second not executable
UserFiles ==
    (PathStr(Path("/home/a", "backup", ".sh")) :> File("a", TRUE))
    @@ (PathStr(Path("/home/b", "backup", ".sh")) :> File("b", FALSE))

\* the system after Config(), LaunchdManager() and nothing else
SysInit ==
    /\ config_file = DefaultConfig
    /\ files = UserFiles
    /\ loaded = {}
    /\ trace = <<>>
    /\ commands = 0
    /\ parser = ScheduleParser

RuntimeError == [type |-> "error", error |-> "RuntimeError", detail |-> <<>>]

Return(code, st) == [result |-> [type |-> "return", code |-> code], st |-> st]
Raise(exception, st) == [result |-> exception, st |-> st]

\* the call is made
Log(st, call) == [st EXCEPT !.trace = Append(@, call)]

WriteFile(st, path, file) == [st EXCEPT !.files = Update(@, path :> file)]

\* Path.unlink() of a file that exists
Unlink(st, path, call) == Log([st EXCEPT !.files = Without(@, path)], call)

\* the schedule of a parsed expression with its ints as numerals
NumeralEntry(entry) == [k \in DOMAIN entry |-> Numeral(entry[k])]
NumeralSchedule(schedule_info) ==
    IF schedule_info.type = "interval" THEN NumeralEntry(schedule_info.schedule)
    ELSE IF schedule_info.list
    THEN [i \in 1..Len(schedule_info.schedule) |-> NumeralEntry(schedule_info.schedule[i])]
    ELSE NumeralEntry(schedule_info.schedule)

\* lines 87-98 of add_task: the TaskConfig
NewTaskConfig(task_name, final_script_path, schedule_info, script_copied, args, env) ==
    [TaskConfig(task_name, schedule_info.type,
                schedule_info.type = "calendar" /\ schedule_info.list,
                NumeralSchedule(schedule_info),
                [working_directory |->
                    IF args.working_dir.some /\ args.working_dir.value # ""
                    THEN args.working_dir ELSE Some(env.cwd),
                 environment |-> Nothing,
                 log_stdout |-> Some(LogsDir \o "/" \o task_name \o ".log"),
                 log_stderr |-> Some(LogsDir \o "/" \o task_name \o ".err.log"),
                 keep_alive |-> FALSE, run_at_load |-> FALSE])
        EXCEPT !.script_path = final_script_path, !.script_copied = script_copied,
               !.created_at = env.now, !.last_modified = env.now]

\* the cleanup `if script_copied: Path(final_script_path).unlink()`
UnlinkCopy(st, task_config) ==
    IF task_config.script_copied THEN Unlink(st, task_config.script_path, "unlink script") ELSE st

\* lines 126-142 of add_task: the task is saved to the config
SaveToConfig(st, task_config, env) ==
    LET outcome == Config_add_task(st.config, task_config, env.written)
        saved == Log([st EXCEPT !.config = outcome.file], "config.add_task")
        unloaded == Log([saved EXCEPT !.loaded = @ \ {task_config.label}], "launchctl unload")
    IN  IF outcome.raised = None THEN Return(0, saved)
        ELSE IF ~env.unload_ok THEN Raise(RuntimeError, Log(saved, "launchctl unload"))
        ELSE Return(1, Unlink(UnlinkCopy(unloaded, task_config),
                              get_plist_path(task_config.label), "unlink plist"))

\* add_task saving the task to the config before it loads the plist
LoadIntoLaunchd_SaveFirst(st, task_config, env) ==
    LET outcome == Config_add_task(st.config, task_config, env.written)
        saved == Log([st EXCEPT !.config = outcome.file], "config.add_task")
        called == Log(saved, "launchctl load")
    IN  IF outcome.raised # None
        THEN Return(1, Unlink(UnlinkCopy(saved, task_config),
                              get_plist_path(task_config.label), "unlink plist"))
        ELSE IF ~env.load_ok
        THEN Return(1, Unlink(UnlinkCopy(called, task_config),
                              get_plist_path(task_config.label), "unlink plist"))
        ELSE Return(0, [called EXCEPT !.loaded = @ \cup {task_config.label}])

\* lines 115-124 of add_task: the plist is loaded into launchd
LoadIntoLaunchd(st, task_config, env) ==
    LET called == Log(st, "launchctl load")
    IN  IF ~env.load_ok
        THEN Return(1, Unlink(UnlinkCopy(called, task_config),
                              get_plist_path(task_config.label), "unlink plist"))
        ELSE SaveToConfig([called EXCEPT !.loaded = @ \cup {task_config.label}], task_config, env)

\* lines 100-113 of add_task: the plist is generated, saved and backed up
SavePlist(st, task_config, env) ==
    LET plist_path == get_plist_path(task_config.label)
        backup_plist_path == PlistsDir \o "/" \o task_config.label \o ".plist"
        plist == File(task_config.label, FALSE)
        saved == Log(WriteFile(st, plist_path, plist), "save plist")
        copied == Log(WriteFile(saved, backup_plist_path, plist), "backup plist")
    IN  IF generate(task_config, LogsDir).type = "error" \/ ~env.save_ok
        THEN Return(1, UnlinkCopy(Log(st, "save plist"), task_config))
        ELSE IF ~env.backup_ok
        THEN Return(1, UnlinkCopy(Log(saved, "backup plist"), task_config))
        ELSE LoadIntoLaunchd(copied, task_config, env)

\* lines 60-85 of add_task: the script is kept where it is, or copied
PlaceScript(st, script_path, task_name, schedule_info, args, env) ==
    LET original == PathStr(script_path)
        dest_script == ScriptsDir \o "/" \o PathName(script_path)
        copied == Log(WriteFile(st, dest_script, st.files[original]), "copy2")
        chmoded == Log([copied EXCEPT !.files[dest_script].executable = TRUE], "chmod")
    IN  IF args.keep_original
        THEN IF st.files[original].executable
             THEN SavePlist(st, NewTaskConfig(task_name, original, schedule_info, FALSE, args, env), env)
             ELSE IF ~env.chmod_ok THEN Return(1, Log(st, "chmod"))
             ELSE SavePlist(Log([st EXCEPT !.files[original].executable = TRUE], "chmod"),
                            NewTaskConfig(task_name, original, schedule_info, FALSE, args, env), env)
        ELSE IF ~env.copy_ok THEN Return(1, Log(st, "copy2"))
        ELSE IF ~env.chmod_ok THEN Return(1, Log(copied, "chmod"))
        ELSE SavePlist(chmoded, NewTaskConfig(task_name, dest_script, schedule_info, TRUE, args, env), env)

\* the expression add_task parses: --schedule, or the line typed when it is not
\* given or is empty
ScheduleGiven(args) == args.schedule.some /\ args.schedule.value # <<>>
ScheduleText(args, env) == IF ScheduleGiven(args) THEN args.schedule.value ELSE env.stdin.value

\* add_task copying the script before it parses the schedule
ITaskCLI_add_task_CopyFirst(st, args, env) ==
    LET script_path == args.script
        task_name == IF args.name.some /\ args.name.value # "" THEN args.name.value
                     ELSE script_path.stem
        dest_script == ScriptsDir \o "/" \o PathName(script_path)
        schedule_info == parse(ScheduleText(args, env))
        parsed == [st EXCEPT !.parser = self_after_parse(@, ScheduleText(args, env))]
    IN  IF PathStr(script_path) \notin DOMAIN st.files THEN Return(1, st)
        ELSE IF Config_task_exists(st.config, task_name) THEN Return(1, st)
        ELSE IF schedule_info.type = "error"
        THEN Return(1, IF args.keep_original THEN parsed
                       ELSE Log(WriteFile(parsed, dest_script, st.files[PathStr(script_path)]), "copy2"))
        ELSE PlaceScript(parsed, script_path, task_name, schedule_info, args, env)

\* ITaskCLI.add_task
ITaskCLI_add_task(st, args, env) ==
    LET script_path == args.script
        task_name == IF args.name.some /\ args.name.value # "" THEN args.name.value
                     ELSE script_path.stem
        schedule_info == parse(ScheduleText(args, env))
        parsed == [st EXCEPT !.parser = self_after_parse(@, ScheduleText(args, env))]
    IN  IF PathStr(script_path) \notin DOMAIN st.files THEN Return(1, st)
        ELSE IF Config_task_exists(st.config, task_name) THEN Return(1, st)
        ELSE IF schedule_info.type = "error" THEN Return(1, parsed)
        ELSE PlaceScript(parsed, script_path, task_name, schedule_info, args, env)

\* remove_task that does not look at script_copied: `if not args.keep_script:`
RemoveScriptAndTask_AnyScript(st, task, args, env) ==
    LET removed == IF ~args.keep_script /\ task.script_path \in DOMAIN st.files
                   THEN Unlink(st, task.script_path, "unlink script") ELSE st
        outcome == Config_remove_task(removed.config, args.name, env.written)
        saved == Log([removed EXCEPT !.config = outcome.file], "config.remove_task")
    IN  IF outcome.raised = None THEN Return(0, saved) ELSE Raise(outcome.raised, saved)

\* lines 174-191 of remove_task: the script is removed, then the task
RemoveScriptAndTask(st, task, args, env) ==
    LET script_was_copied == IF "script_copied" \in DOMAIN task THEN task.script_copied ELSE TRUE
        removed == IF script_was_copied /\ ~args.keep_script /\ task.script_path \in DOMAIN st.files
                   THEN Unlink(st, task.script_path, "unlink script") ELSE st
        outcome == Config_remove_task(removed.config, args.name, env.written)
        saved == Log([removed EXCEPT !.config = outcome.file], "config.remove_task")
    IN  IF outcome.raised = None THEN Return(0, saved) ELSE Raise(outcome.raised, saved)

\* ITaskCLI.remove_task
ITaskCLI_remove_task(st, args, env) ==
    LET got == Config_get_task(st.config, args.name)
        task == got.value
        label == task.label
        plist_path == get_plist_path(label)
        backup_plist == PlistsDir \o "/" \o label \o ".plist"
        called == Log(st, "launchctl unload")
        unloaded == IF env.unload_ok THEN [called EXCEPT !.loaded = @ \ {label}] ELSE called
        no_plist == IF plist_path \in DOMAIN unloaded.files
                    THEN Unlink(unloaded, plist_path, "unlink plist") ELSE unloaded
        no_backup == IF backup_plist \in DOMAIN no_plist.files
                     THEN Unlink(no_plist, backup_plist, "unlink backup") ELSE no_plist
    IN  IF ~got.some THEN Return(1, st)
        ELSE IF ~args.yes /\ lower(env.stdin.value) # <<"y">> THEN Return(0, st)
        ELSE RemoveScriptAndTask(no_backup, task, args, env)

----------------------------------------------------------------------------
(* The expressions parse is called with.  As the tests do with f-strings,  *)
(* an expression is built from parameters: `form` holds them, and          *)
(* Render(form) is the str.  A style is the way the text is typed: its     *)
(* letter case, the whitespace before and after it, and the whitespace     *)
(* run between its tokens.                                                 *)

MaxN == 12        \* interval values 0..MaxN (and a few large ones)
MaxHour == 25     \* hours 0..MaxHour
MaxMinute == 61   \* minutes 0..MaxMinute
MaxDay == 33      \* days of month 0..MaxDay (and a few large ones)

Plain == [case |-> "lower", lead |-> <<>>, trail |-> <<>>, gap |-> <<" ">>]

Styles ==
    [case : {"lower", "upper", "mixed"},
     lead : {<<>>, <<" ", "\t">>},
     trail : {<<>>, <<"\n">>},
     gap : {<<" ">>, <<" ", " ", " ">>, <<" ", "\t">>}]

\* the tokens of the model's expressions
EVERY == <<"e", "v", "e", "r", "y">>
DAILY == <<"d", "a", "i", "l", "y">>
AT == <<"a", "t">>
HOURLY == <<"h", "o", "u", "r", "l", "y">>
MINUTELY == <<"m", "i", "n", "u", "t", "e", "l", "y">>
FOO == <<" ", "f", "o", "o">>

Units == {<<"s">>, <<"m">>, <<"h">>, <<"d">>}
\* words that are not interval units
OtherWords ==
    {<<"x">>, <<"m", "s">>, <<"m", "i", "n">>, <<"h", "o", "u", "r", "s">>, <<"_">>, <<"s", "e", "c">>}
WeekdayNames == DOMAIN WEEKDAYS
\* tokens that are not weekday names
OtherNames ==
    {<<"x", "y", "z">>, <<"f", "u", "n", "d", "a", "y">>, <<"m", "o", "n", "n">>,
     <<"m", "o">>, <<"e", "v", "e", "r", "y">>, <<"_">>}
Suffixes == {<<>>, <<"s", "t">>, <<"n", "d">>, <<"r", "d">>, <<"t", "h">>}

\* a time of day as typed: hour (zero-padded to two digits when pad), minute
\* (two digits), and seconds (two digits, -1 when not typed)
Time(hour, minute, pad, second) ==
    [hour |-> hour, minute |-> minute, pad |-> pad, second |-> second]

\* every hour with every minute, typed HH:MM
TimeGrid == {Time(h, m, TRUE, -1) : h \in 0..MaxHour, m \in 0..MaxMinute}

EdgeTimes ==
    {Time(9, 0, TRUE, -1), Time(9, 0, FALSE, -1), Time(18, 0, TRUE, -1),
     Time(23, 59, TRUE, -1), Time(9, 30, TRUE, 45), Time(24, 0, TRUE, -1),
     Time(23, 60, TRUE, -1), Time(25, 61, TRUE, -1), Time(7, 99, FALSE, 5)}

FewTimes == {Time(9, 0, TRUE, -1), Time(23, 59, TRUE, -1), Time(24, 30, TRUE, -1), Time(10, 60, TRUE, -1)}

LiteralForm(tokens, style) == [kind |-> "literal", tokens |-> tokens, style |-> style]
EveryForm(n, zeros, unit, tail, style) ==
    [kind |-> "every", n |-> n, zeros |-> zeros, unit |-> unit, tail |-> tail, style |-> style]
DailyForm(daily, time, tail, style) ==
    [kind |-> "daily", daily |-> daily, time |-> time, tail |-> tail, style |-> style]
DayForm(day, pad, suffix, time, tail, style) ==
    [kind |-> "day", day |-> day, pad |-> pad, suffix |-> suffix, time |-> time,
     tail |-> tail, style |-> style]
WeekdayForm(day, time, tail, style) ==
    [kind |-> "weekday", day |-> day, time |-> time, tail |-> tail, style |-> style]
RangeForm(start, end, time, tail, style) ==
    [kind |-> "range", start |-> start, end |-> end, time |-> time, tail |-> tail, style |-> style]

LiteralForms ==
    {LiteralForm(t, st) :
        t \in {<<>>, <<HOURLY>>, <<MINUTELY>>, <<EVERY>>, <<AT>>, <<DAILY>>,
               <<HOURLY, <<"n", "o", "w">>>>,
               <<MINUTELY, <<"n", "o", "w">>>>, <<HOURLY \o <<"s">>>>,
               <<<<"n", "o", "t">>, <<"a">>, <<"s", "c", "h", "e", "d", "u", "l", "e">>>>,
               <<<<"i", "n", "v", "a", "l", "i", "d">>, <<"s", "c", "h", "e", "d", "u", "l", "e">>>>},
        st \in Styles}

EveryForms ==
    {EveryForm(n, 0, u, tl, Plain) :
        n \in 0..MaxN \cup {30, 100, 1000}, u \in Units \cup OtherWords \cup {<<>>},
        tl \in {<<>>, FOO}}
    \cup {EveryForm(7, 2, u, <<>>, Plain) : u \in Units \cup OtherWords}
    \cup {EveryForm(n, 0, u, <<>>, st) :
            n \in {5, 10}, u \in Units \cup {<<"x">>, <<"m", "i", "n">>}, st \in Styles}

DailyForms ==
    {DailyForm(d, t, <<>>, Plain) : d \in BOOLEAN, t \in TimeGrid \cup EdgeTimes}
    \cup {DailyForm(d, t, FOO, Plain) : d \in BOOLEAN, t \in FewTimes}
    \cup {DailyForm(d, t, <<>>, st) : d \in BOOLEAN, t \in FewTimes, st \in Styles}

DayForms ==
    {DayForm(n, p, sf, t, <<>>, Plain) :
        n \in 0..MaxDay \cup {99, 100, 131}, p \in BOOLEAN, sf \in Suffixes, t \in FewTimes}
    \cup {DayForm(15, FALSE, <<"t", "h">>, t, <<>>, Plain) : t \in TimeGrid \cup EdgeTimes}
    \cup {DayForm(n, FALSE, sf, t, FOO, Plain) :
            n \in {1, 31, 32, 100}, sf \in {<<>>, <<"s", "t">>}, t \in FewTimes}
    \cup {DayForm(n, FALSE, sf, t, <<>>, st) :
            n \in {1, 32, 100}, sf \in {<<>>, <<"s", "t">>}, t \in {Time(9, 0, TRUE, -1), Time(24, 30, TRUE, -1)},
            st \in Styles}

WeekdayForms ==
    {WeekdayForm(d, t, <<>>, Plain) : d \in WeekdayNames \cup OtherNames, t \in EdgeTimes}
    \cup {WeekdayForm(<<"m", "o", "n">>, t, <<>>, Plain) : t \in TimeGrid}
    \cup {WeekdayForm(d, t, FOO, Plain) :
            d \in {<<"m", "o", "n">>, <<"x", "y", "z">>}, t \in FewTimes}
    \cup {WeekdayForm(d, t, <<>>, st) :
            d \in {<<"m", "o", "n">>, <<"s", "u", "n", "d", "a", "y">>, <<"x", "y", "z">>},
            t \in {Time(9, 0, TRUE, -1), Time(10, 60, TRUE, -1)}, st \in Styles}

RangeForms ==
    {RangeForm(a, b, t, <<>>, Plain) :
        a \in WeekdayNames \cup OtherNames, b \in WeekdayNames \cup OtherNames, t \in FewTimes}
    \cup {RangeForm(<<"m", "o", "n">>, <<"f", "r", "i">>, t, <<>>, Plain) : t \in TimeGrid \cup EdgeTimes}
    \cup {RangeForm(<<"s", "a", "t">>, <<"m", "o", "n">>, t, FOO, Plain) : t \in FewTimes}
    \cup {RangeForm(a, <<"t", "u", "e">>, t, <<>>, st) :
            a \in {<<"m", "o", "n">>, <<"s", "a", "t">>, <<"x", "y", "z">>},
            t \in {Time(18, 0, TRUE, -1), Time(24, 30, TRUE, -1)}, st \in Styles}

Forms == LiteralForms \cup EveryForms \cup DailyForms \cup DayForms \cup WeekdayForms \cup RangeForms

\* n as two decimal digits at least
Pad2(n) == IF n < 10 THEN <<"0">> \o str(n) ELSE str(n)

RenderTime(t) ==
    (IF t.pad THEN Pad2(t.hour) ELSE str(t.hour)) \o <<":">> \o Pad2(t.minute)
    \o (IF t.second >= 0 THEN <<":">> \o Pad2(t.second) ELSE <<>>)

RECURSIVE Join(_, _)
\* the tokens with gap between them
Join(tokens, gap) ==
    IF Len(tokens) = 0 THEN <<>>
    ELSE IF Len(tokens) = 1 THEN tokens[1]
    ELSE tokens[1] \o gap \o Join(Tail(tokens), gap)

\* the text of a form before its style's case and outer whitespace are applied
Body(f) ==
    LET gap == f.style.gap
        at_time == gap \o AT \o gap \o RenderTime(f.time)
    IN  CASE f.kind = "literal" -> Join(f.tokens, gap)
          [] f.kind = "every" ->
                EVERY \o gap \o [i \in 1..f.zeros |-> "0"] \o str(f.n) \o f.unit \o f.tail
          [] f.kind = "daily" ->
                (IF f.daily THEN DAILY \o gap ELSE <<>>) \o AT \o gap \o RenderTime(f.time) \o f.tail
          [] f.kind = "day" ->
                (IF f.pad THEN Pad2(f.day) ELSE str(f.day)) \o f.suffix \o at_time \o f.tail
          [] f.kind = "weekday" -> f.day \o at_time \o f.tail
          [] f.kind = "range" -> f.start \o <<"-">> \o f.end \o at_time \o f.tail

ApplyCase(case, s) ==
    CASE case = "lower" -> s
      [] case = "upper" -> [i \in 1..Len(s) |-> UpperChar(s[i])]
      [] case = "mixed" -> [i \in 1..Len(s) |-> IF i % 2 = 1 THEN UpperChar(s[i]) ELSE s[i]]

Render(f) == f.style.lead \o ApplyCase(f.style.case, Body(f)) \o f.style.trail

----------------------------------------------------------------------------
(* The state machine: one call of parse on each expression.                *)

Init ==
    /\ form \in Forms
    /\ expression = Render(form)
    /\ result = None
    /\ pc = "call"
    /\ SysInit

\* result = parser.parse(expression), or the ValueError it raised
Parse ==
    /\ pc = "call"
    /\ result' = parse(expression)
    /\ parser' = self_after_parse(parser, expression)
    /\ pc' = "done"
    /\ UNCHANGED <<form, expression>>
    /\ UNCHANGED sysVars

Next == Parse

Spec == Init /\ [][Next]_vars

----------------------------------------------------------------------------
(* Calls of parse on one parser from several threads.  A thread calls      *)
(* parse again and again; a call is in flight from the time it is made to  *)
(* the time it returns or raises, and the calls of the other threads may   *)
(* begin and end in between.  pc, expression and result hold one entry for *)
(* each thread.                                                            *)

NumThreads == 3

Threads == 1..NumThreads

\* what the threads parse: a weekday, the same with an hour out of range, a name
\* that is no weekday, a range, an interval, a unit that is none, and nothing
ThreadExpressions ==
    {Render(WeekdayForm(<<"t", "h", "u", "r", "s">>, Time(9, 0, TRUE, -1), <<>>, Plain)),
     Render(WeekdayForm(<<"t", "h", "u", "r", "s">>, Time(25, 0, TRUE, -1), <<>>, Plain)),
     Render(WeekdayForm(<<"f", "u", "n", "d", "a", "y">>, Time(9, 0, TRUE, -1), <<>>, Plain)),
     Render(RangeForm(<<"m", "o", "n">>, <<"f", "r", "i">>, Time(18, 0, TRUE, -1), <<>>, Plain)),
     Render(EveryForm(5, 0, <<"m">>, <<>>, Plain)),
     Render(EveryForm(5, 0, <<"x">>, <<>>, Plain)),
     <<>>}

ThreadsInit ==
    /\ form = [kind |-> "threads"]
    /\ expression = [t \in Threads |-> <<>>]
    /\ result = [t \in Threads |-> None]
    /\ pc = [t \in Threads |-> "idle"]
    /\ SysInit

\* thread t calls parser.parse(e)
ThreadCall(t) ==
    /\ pc[t] # "running"
    /\ \E e \in ThreadExpressions : expression' = [expression EXCEPT ![t] = e]
    /\ result' = [result EXCEPT ![t] = None]
    /\ pc' = [pc EXCEPT ![t] = "running"]
    /\ UNCHANGED <<form, parser>>
    /\ UNCHANGED sysVars

\* the call of thread t returns or raises: it has read the tables as they are
\* while it runs
ThreadReturn(t) ==
    /\ pc[t] = "running"
    /\ result' = [result EXCEPT ![t] = parse(expression[t])]
    /\ parser' = self_after_parse(parser, expression[t])
    /\ pc' = [pc EXCEPT ![t] = "done"]
    /\ UNCHANGED <<form, expression>>
    /\ UNCHANGED sysVars

ThreadsNext == \E t \in Threads : ThreadCall(t) \/ ThreadReturn(t)

ThreadsSpec == ThreadsInit /\ [][ThreadsNext]_vars

----------------------------------------------------------------------------
(* The raw dicts parse_raw is called with, and one call of parse_raw on    *)
(* each.                                                                   *)

RawTypes == {"interval", "calendar", "invalid", "Interval", "CALENDAR", ""}
RawKeys == {"seconds", "Hour", "Minute", "Day", "Weekday"}
RawValues == {-1, 0, 99}

\* dicts with any of the keys, with and without a type
RawDicts ==
    LET fields == UNION {[ks -> RawValues] : ks \in SUBSET RawKeys}
    IN  fields \cup {("type" :> t) @@ f : t \in RawTypes, f \in fields}

RawForm(raw_dict) == [kind |-> "raw", raw_dict |-> raw_dict]

RawInit ==
    /\ form \in {RawForm(d) : d \in RawDicts}
    /\ expression = <<>>
    /\ result = None
    /\ pc = "call"
    /\ SysInit

\* result = parser.parse_raw(raw_dict), or the error it raised
ParseRaw ==
    /\ pc = "call"
    /\ result' = parse_raw(form.raw_dict)
    /\ pc' = "done"
    /\ UNCHANGED <<form, expression, parser>>
    /\ UNCHANGED sysVars

RawNext == ParseRaw

RawSpec == RawInit /\ [][RawNext]_vars

----------------------------------------------------------------------------
(* The tasks generate is called with, and one call of generate on each.    *)

MaxSeconds == 3
\* seconds 0..MaxSeconds, a negative one, those of hourly and of a day, and the
\* ints around the two limits of the plist writer
SecondsNumerals ==
    {Numeral(n) : n \in 0..MaxSeconds}
    \cup {<<"-", "1">>, Numeral(3600), Numeral(86400),
          <<"1", "8", "4", "4", "6", "7", "4", "4", "0", "7", "3", "7", "0", "9", "5", "5", "1", "6", "1", "5">>, TwoTo64, <<"8", "6", "3", "9", "9", "9", "9", "9", "9", "9", "9", "9", "9", "9", "9", "1", "3", "6", "0", "0">>,
          <<"-", "9", "2", "2", "3", "3", "7", "2", "0", "3", "6", "8", "5", "4", "7", "7", "5", "8", "0", "8">>, <<"-">> \o TwoTo63Plus1}

Entry(hour, minute) == [Hour |-> Numeral(hour), Minute |-> Numeral(minute)]

\* one entry, as `daily at`, `<N>th at` and `<name> at` give, and two unchecked ones
DictSchedules ==
    {Entry(9, 0), Entry(17, 30),
     [Day |-> Numeral(15), Hour |-> Numeral(9), Minute |-> Numeral(0)],
     [Weekday |-> Numeral(1), Hour |-> Numeral(9), Minute |-> Numeral(0)],
     [Hour |-> Numeral(99), Minute |-> Numeral(0)],
     [Hour |-> TwoTo64, Minute |-> Numeral(0)],
     EmptyDict}

WeekdayEntry(weekday) == [Weekday |-> Numeral(weekday), Hour |-> Numeral(9), Minute |-> Numeral(0)]

\* lists of entries, as a weekday range gives, and the two-entry list of the tests
\* in both orders
ListSchedules ==
    {<< >>, <<Entry(9, 0)>>, <<Entry(9, 0), Entry(17, 30)>>, <<Entry(17, 30), Entry(9, 0)>>,
     <<Entry(9, 0), Entry(9, 0)>>,
     [i \in 1..5 |-> WeekdayEntry(i)],
     <<WeekdayEntry(6), WeekdayEntry(0), WeekdayEntry(1)>>,
     <<Entry(9, 0), [Hour |-> TwoTo64, Minute |-> Numeral(0)]>>}

ScheduleTypes == {"interval", "calendar", "invalid", "Interval", ""}

\* the settings of a task other than its schedule
TaskOptions ==
    [working_directory : {Nothing, Some(""), Some("/tmp")},
     environment : {Nothing, Some(EmptyDict), Some([PATH |-> "/usr/bin"])},
     log_stdout : {Nothing, Some("/tmp/custom_out.log")},
     log_stderr : {Nothing},
     keep_alive : BOOLEAN,
     run_at_load : {FALSE}]

PlainOptions ==
    [working_directory |-> Nothing, environment |-> Nothing, log_stdout |-> Nothing,
     log_stderr |-> Nothing, keep_alive |-> FALSE, run_at_load |-> FALSE]

TaskForm(task, log_dir) == [kind |-> "task", task |-> task, log_dir |-> log_dir]

\* a call on the task of the tests with the given schedule and settings
CallOn(schedule_type, list, schedule, options) ==
    form = TaskForm(TaskConfig("test", schedule_type, list, schedule, options), "/logs")

\* every schedule with every schedule_type, and the two tasks of the tests with
\* every setting
PlistInit ==
    /\ \/ \E t \in ScheduleTypes, n \in SecondsNumerals :
                CallOn(t, FALSE, [seconds |-> n], PlainOptions)
       \/ \E t \in ScheduleTypes, d \in DictSchedules : CallOn(t, FALSE, d, PlainOptions)
       \/ \E t \in ScheduleTypes, l \in ListSchedules : CallOn(t, TRUE, l, PlainOptions)
       \/ \E o \in TaskOptions : CallOn("interval", FALSE, [seconds |-> Numeral(3600)], o)
       \/ \E o \in TaskOptions : CallOn("calendar", FALSE, Entry(9, 0), o)
    /\ expression = <<>>
    /\ result = None
    /\ pc = "call"
    /\ SysInit

\* result = generator.generate(task, log_dir) read back, or the error it raised
Generate ==
    /\ pc = "call"
    /\ result' = generate(form.task, form.log_dir)
    /\ pc' = "done"
    /\ UNCHANGED <<form, expression, parser>>
    /\ UNCHANGED sysVars

PlistNext == Generate

PlistSpec == PlistInit /\ [][PlistNext]_vars

----------------------------------------------------------------------------
(* The registry under any sequence of calls of the methods of Config, each *)
(* with the outcome of its write chosen by the file system.                *)

MaxClock == 2
\* the values of datetime.now()
Timestamps == 1..MaxClock

TaskNames == {"test_task", "task2"}

\* the names the tests look up: those of the tasks, and one never added
LookupNames == TaskNames \cup {"nonexistent"}

\* a task as the tests build it, made at the time now
TaskAt(name, schedule_type, schedule, now) ==
    [TaskConfig(name, schedule_type, FALSE, schedule, PlainOptions)
        EXCEPT !.created_at = now, !.last_modified = now]

ConfigInit ==
    /\ form = [kind |-> "Config"]
    /\ expression = <<>>
    /\ result = None
    /\ pc = "done"
    /\ SysInit

\* the call of a method: its arguments, what it raised or returned, the file it left
Called(call, raised, file) ==
    /\ form' = call
    /\ result' = raised
    /\ config_file' = file
    /\ pc' = "done"
    /\ UNCHANGED <<expression, files, loaded, trace, commands, parser>>

Returned(value) == [type |-> "value", value |-> value]

AddTask ==
    \E name \in TaskNames, now \in Timestamps, written \in BOOLEAN :
        \E task_config \in {TaskAt(name, "interval", [seconds |-> Numeral(3600)], now),
                            TaskAt(name, "calendar", Entry(9, 0), now)} :
            LET outcome == Config_add_task(config_file, task_config, written)
            IN  Called([kind |-> "add_task", name |-> name, task_config |-> task_config],
                       outcome.raised, outcome.file)

RemoveTask ==
    \E name \in LookupNames, written \in BOOLEAN :
        LET outcome == Config_remove_task(config_file, name, written)
        IN  Called([kind |-> "remove_task", name |-> name], outcome.raised, outcome.file)

UpdateTask ==
    \E name \in LookupNames, now \in Timestamps, written \in BOOLEAN :
        \E updates \in {EmptyDict, [enabled |-> FALSE],
                        [enabled |-> FALSE, schedule |-> [seconds |-> Numeral(7200)]]} :
            LET outcome == Config_update_task(config_file, name, updates, now, written)
            IN  Called([kind |-> "update_task", name |-> name, updates |-> updates],
                       outcome.raised, outcome.file)

GetTask ==
    \E name \in LookupNames :
        Called([kind |-> "get_task", name |-> name],
               Returned(Config_get_task(config_file, name)), config_file)

TaskExists ==
    \E name \in LookupNames :
        Called([kind |-> "task_exists", name |-> name],
               Returned(Config_task_exists(config_file, name)), config_file)

TaskCount ==
    Called([kind |-> "task_count"], Returned(Config_task_count(config_file)), config_file)

ConfigNext == AddTask \/ RemoveTask \/ UpdateTask \/ GetTask \/ TaskExists \/ TaskCount

ConfigSpec == ConfigInit /\ [][ConfigNext]_vars

----------------------------------------------------------------------------
(* Config._write_config step by step: the temp file is opened, json.dump   *)
(* writes the text in chunks, the file is closed and renamed over          *)
(* config.json.  Any of these may raise an Exception; the except clause    *)
(* then removes the temp file when there is one and raises again.  A       *)
(* process that is interrupted or killed leaves the disk as it is, with    *)
(* the temp file the next write finds.  The disk is the files with         *)
(* config.json among them.                                                 *)

\* self.config_file
ConfigFile == ConfigDir \o "/config.json"

\* the text written straight to self.config_file
temp_file_InPlace == ConfigFile

\* temp_file = self.config_file.with_suffix('.json.tmp')
temp_file == ConfigDir \o "/config.json.tmp"

\* the chunks json.dump writes a text in
MaxChunks == 2

\* a file that holds the first chunks of the text of config, all of it at MaxChunks
Text(config, chunks) ==
    IF chunks = MaxChunks THEN config ELSE [text_of |-> config, chunks |-> chunks]

\* config.json when there is no such file
Missing == [missing |-> TRUE]

Disk ==
    IF "missing" \in DOMAIN config_file THEN files
    ELSE (ConfigFile :> File(config_file, FALSE)) @@ files

\* the disk is left as given
OnDisk(disk) ==
    /\ config_file' = IF ConfigFile \in DOMAIN disk THEN disk[ConfigFile].content ELSE Missing
    /\ files' = [path \in DOMAIN disk \ {ConfigFile} |-> disk[path]]

\* the registries that are written and those found on the disk
Registries ==
    {DefaultConfig,
     [DefaultConfig EXCEPT !.tasks =
        "test_task" :> TaskAt("test_task", "interval", [seconds |-> Numeral(3600)], 1)],
     [DefaultConfig EXCEPT !.tasks =
        "task2" :> TaskAt("task2", "calendar", Entry(9, 0), 2)],
     [DefaultConfig EXCEPT !.tasks =
        ("test_task" :> TaskAt("test_task", "interval", [seconds |-> Numeral(3600)], 1))
        @@ ("task2" :> TaskAt("task2", "interval", [seconds |-> Numeral(3600)], 2))]}

WriteForm(config, previous) ==
    [kind |-> "_write_config", config |-> config, previous |-> previous, chunks |-> 0]

\* the first call of _write_config after Config()
WriteInit ==
    /\ \E config \in Registries : form = WriteForm(config, DefaultConfig)
    /\ config_file = DefaultConfig
    /\ files = UserFiles
    /\ expression = <<>>
    /\ result = None
    /\ pc = "call"
    /\ loaded = {}
    /\ trace = <<>>
    /\ commands = 0
    /\ parser = ScheduleParser

\* open(temp_file, 'w'): the file is made, or emptied
WriteOpen ==
    /\ pc = "call"
    /\ OnDisk((temp_file :> File(Text(form.config, 0), FALSE)) @@ Disk)
    /\ pc' = "open"
    /\ UNCHANGED <<form, expression, result, loaded, trace, commands, parser>>

\* json.dump writes the next chunk; the file is closed after the last one
WriteDump ==
    /\ pc = "open"
    /\ form' = [form EXCEPT !.chunks = @ + 1]
    /\ OnDisk((temp_file :> File(Text(form.config, form.chunks + 1), FALSE)) @@ Disk)
    /\ pc' = IF form.chunks + 1 = MaxChunks THEN "closed" ELSE "open"
    /\ UNCHANGED <<expression, result, loaded, trace, commands, parser>>

\* temp_file.replace(self.config_file)
WriteReplace ==
    /\ pc = "closed"
    /\ OnDisk((ConfigFile :> Disk[temp_file])
              @@ [path \in DOMAIN Disk \ {temp_file} |-> Disk[path]])
    /\ result' = None
    /\ pc' = "done"
    /\ UNCHANGED <<form, expression, loaded, trace, commands, parser>>

\* open, a write of json.dump or replace raises an Exception: the except clause
WriteExcept ==
    /\ pc \in {"call", "open", "closed"}
    /\ OnDisk([path \in DOMAIN Disk \ {temp_file} |-> Disk[path]])
    /\ result' = OSError
    /\ pc' = "done"
    /\ UNCHANGED <<form, expression, loaded, trace, commands, parser>>

\* the process is interrupted or killed during the write: KeyboardInterrupt is
\* no Exception, so the except clause does not run, and the disk stays as it is
WriteKilled ==
    /\ pc \in {"call", "open", "closed"}
    /\ result' = [type |-> "error", error |-> "KeyboardInterrupt", detail |-> <<>>]
    /\ pc' = "killed"
    /\ UNCHANGED <<form, expression, config_file, files, loaded, trace, commands, parser>>

\* the next call, on the disk the last one left
WriteAgain ==
    /\ pc \in {"done", "killed"}
    /\ \E config \in Registries : form' = WriteForm(config, config_file)
    /\ result' = None
    /\ pc' = "call"
    /\ UNCHANGED <<expression, config_file, files, loaded, trace, commands, parser>>

WriteNext == WriteOpen \/ WriteDump \/ WriteReplace \/ WriteExcept \/ WriteKilled \/ WriteAgain

WriteSpec == WriteInit /\ [][WriteNext]_vars

----------------------------------------------------------------------------
(* The system under any sequence of the commands add and remove, each with *)
(* every choice of the environment.                                        *)

\* what is given to --schedule: two schedules, and an expression parse refuses
CliExpressions ==
    {Render(EveryForm(1, 0, <<"h">>, <<>>, Plain)),
     Render(DailyForm(TRUE, Time(9, 0, TRUE, -1), <<>>, Plain)),
     Render(DailyForm(TRUE, Time(25, 0, TRUE, -1), <<>>, Plain))}

\* the lines typed at a prompt: an answer, which is no schedule, and a schedule
StdinLines == {<<"y">>, <<"n">>, Render(EveryForm(1, 0, <<"h">>, <<>>, Plain))}

\* the scripts named on the command line: those of the user, and one that is not there
CliScripts == {Path("/home/a", "backup", ".sh"), Path("/home/b", "backup", ".sh"),
               Path("/home/a", "missing", ".sh")}

AddArgs ==
    [script : CliScripts,
     name : {Nothing, Some("job")},
     schedule : {Nothing} \cup {Some(e) : e \in CliExpressions},
     working_dir : {Nothing},
     keep_original : BOOLEAN]

RemoveArgs == [name : {"backup", "job", "nonexistent"}, yes : BOOLEAN, keep_script : BOOLEAN]

\* the time of the commands; no command reads a time back
CliClock == 1

\* the commands of one behaviour
MaxCommands == 2

\* a command ends at the first call that fails, but for the unload that follows a
\* failed save of the config: at most one failure is chosen, and that of unload
\* with that of the write
Environments ==
    {env \in [copy_ok : BOOLEAN, chmod_ok : BOOLEAN, save_ok : BOOLEAN, backup_ok : BOOLEAN,
              load_ok : BOOLEAN, unload_ok : BOOLEAN, written : BOOLEAN,
              stdin : {Nothing} \cup {Some(line) : line \in StdinLines},
              cwd : {"/home/a"}, now : {CliClock}] :
        /\ Cardinality({ok \in {"copy_ok", "chmod_ok", "save_ok", "backup_ok", "load_ok", "written"} :
                            ~env[ok]}) <= 1
        /\ ~env.unload_ok => ~env.written}

\* remove is not stopped by a failure of unload, which it may meet alone
RemoveEnvironments ==
    Environments
    \cup {[env EXCEPT !.unload_ok = FALSE] :
            env \in {e \in Environments : e.copy_ok /\ e.chmod_ok /\ e.save_ok
                                            /\ e.backup_ok /\ e.load_ok /\ e.written}}

\* the system after Config(), LaunchdManager() and nothing else
EmptySystem ==
    [config |-> DefaultConfig, files |-> UserFiles, loaded |-> {}, trace |-> <<>>,
     parser |-> ScheduleParser]

\* an environment where no call fails and nothing is typed
NoFailure ==
    [copy_ok |-> TRUE, chmod_ok |-> TRUE, save_ok |-> TRUE, backup_ok |-> TRUE,
     load_ok |-> TRUE, unload_ok |-> TRUE, written |-> TRUE,
     stdin |-> Nothing, cwd |-> "/home/a", now |-> CliClock]

\* the system after `itask add /home/a/backup.sh --schedule "every 1h"` on the
\* empty one: the task backup, its script copied
Installed ==
    [ITaskCLI_add_task(EmptySystem,
                       [script |-> Path("/home/a", "backup", ".sh"), name |-> Nothing,
                        schedule |-> Some(Render(EveryForm(1, 0, <<"h">>, <<>>, Plain))),
                        working_dir |-> Nothing, keep_original |-> FALSE],
                       NoFailure).st
        EXCEPT !.trace = <<>>]

\* the same, its task saved by a version that wrote no script_copied field
Legacy ==
    [Installed EXCEPT !.config.tasks["backup"] = Without(@, "script_copied")]

\* the systems the commands start from
CliInit ==
    /\ form = [kind |-> "ITaskCLI"]
    /\ expression = <<>>
    /\ result = None
    /\ pc = "done"
    /\ parser = ScheduleParser
    /\ \/ config_file = EmptySystem.config /\ files = EmptySystem.files
          /\ loaded = EmptySystem.loaded
       \/ config_file = Installed.config /\ files = Installed.files
          /\ loaded = Installed.loaded
       \/ config_file = Legacy.config /\ files = Legacy.files
          /\ loaded = Legacy.loaded
    /\ trace = <<>>
    /\ commands = 0

System == [config |-> config_file, files |-> files, loaded |-> loaded, trace |-> <<>>,
           parser |-> parser]

\* a command has run: its arguments and the line typed, its outcome, the system it left
Ran(command, outcome) ==
    /\ form' = command
    /\ UNCHANGED expression
    /\ result' = outcome.result
    /\ pc' = "done"
    /\ config_file' = outcome.st.config
    /\ files' = outcome.st.files
    /\ loaded' = outcome.st.loaded
    /\ trace' = outcome.st.trace
    /\ commands' = commands + 1
    /\ parser' = outcome.st.parser

\* a line is typed exactly when the command prompts: add without a schedule
CliAdd ==
    \E args \in AddArgs, env \in Environments :
        /\ commands < MaxCommands
        /\ env.stdin.some <=> ~ScheduleGiven(args)
        /\ Ran([kind |-> "add", args |-> args, stdin |-> env.stdin],
               ITaskCLI_add_task(System, args, env))

\* and remove without --yes
CliRemove ==
    \E args \in RemoveArgs, env \in RemoveEnvironments :
        /\ commands < MaxCommands
        /\ env.stdin.some <=> ~args.yes
        /\ env.copy_ok /\ env.chmod_ok /\ env.save_ok /\ env.backup_ok /\ env.load_ok
        /\ Ran([kind |-> "remove", args |-> args, stdin |-> env.stdin],
               ITaskCLI_remove_task(System, args, env))

CliNext == CliAdd \/ CliRemove

CliSpec == CliInit /\ [][CliNext]_vars

----------------------------------------------------------------------------
(* The system under the commands that succeed: add without                 *)
(* --keep-original where no call fails, and remove where the save of the   *)
(* registry does not fail.                                                  *)

\* an add without --keep-original that returns 0
CliAddCopy ==
    \E args \in AddArgs, env \in Environments :
        /\ commands < MaxCommands
        /\ env.stdin.some <=> ~ScheduleGiven(args)
        /\ ~args.keep_original
        /\ ITaskCLI_add_task(System, args, env).result = [type |-> "return", code |-> 0]
        /\ Ran([kind |-> "add", args |-> args, stdin |-> env.stdin],
               ITaskCLI_add_task(System, args, env))

\* a remove that returns
CliRemoveDone ==
    \E args \in RemoveArgs, env \in RemoveEnvironments :
        /\ commands < MaxCommands
        /\ env.stdin.some <=> ~args.yes
        /\ env.copy_ok /\ env.chmod_ok /\ env.save_ok /\ env.backup_ok /\ env.load_ok
        /\ ITaskCLI_remove_task(System, args, env).result.type = "return"
        /\ Ran([kind |-> "remove", args |-> args, stdin |-> env.stdin],
               ITaskCLI_remove_task(System, args, env))

CopiesNext == CliAddCopy \/ CliRemoveDone

CopiesSpec == CliInit /\ [][CopiesNext]_vars

----------------------------------------------------------------------------
(* Properties.  They read the parameters of the expression from `form`     *)
(* and the outcome of the call from `result`.                              *)

Done == pc = "done"

HourError == "Invalid time format: hour must be 0-23, got "
MinuteError == "Invalid time format: minute must be 0-59, got "

\* the typed time is a time of day
TimeOK(t) == t.hour <= 23 /\ t.minute <= 59

Raised(error) == result.type = "error" /\ result.error = error

\* the fields of a calendar form other than its time are valid
OtherFieldsValid(f) ==
    CASE f.kind = "daily" -> TRUE
      [] f.kind = "day" -> f.day \in 1..31
      [] f.kind = "weekday" -> f.day \in WeekdayNames
      [] f.kind = "range" -> f.start \in WeekdayNames /\ f.end \in WeekdayNames

\* the day or weekday field of a form is invalid
DayFieldInvalid(f) ==
    CASE f.kind = "day" -> f.day \notin 1..31
      [] f.kind = "weekday" -> f.day \notin WeekdayNames
      [] f.kind = "range" -> f.start \notin WeekdayNames \/ f.end \notin WeekdayNames

\* the entries of a calendar result
Entries(r) == IF r.list THEN Range(r.schedule) ELSE {r.schedule}

\* C1: for every N and every unit u in {s, m, h, d}, parse("every " + N + u)
\* returns the interval schedule of exactly N x multiplier(u) seconds, the
\* multipliers being s=1, m=60, h=3600, d=86400.
C1_IntervalSeconds ==
    (Done /\ form.kind = "every" /\ form.unit \in Units /\ form.zeros = 0
        /\ form.tail = <<>> /\ form.style = Plain)
    => result = Interval(form.n * (CASE form.unit = <<"s">> -> 1
                                     [] form.unit = <<"m">> -> 60
                                     [] form.unit = <<"h">> -> 3600
                                     [] form.unit = <<"d">> -> 86400))

C1_Witness ==
    /\ Done
    /\ expression = <<"e", "v", "e", "r", "y", " ", "1", "0", "0", "0", "h">>
    /\ form.kind = "every" /\ form.n = 1000
    /\ result = Interval(3600000)

\* C2: an expression `every <N><word>` whose word is not one of s, m, h, d makes
\* parse raise the invalid-interval-unit error: never the invalid-schedule-format
\* error, and no later grammar is tried.
C2_InvalidUnitFirst ==
    (Done /\ form.kind = "every" /\ form.unit \in OtherWords)
    => (Raised("Invalid interval unit: ") /\ result.detail = form.unit)

C2_Witness ==
    /\ Done
    /\ expression = <<"e", "v", "e", "r", "y", " ", "1", "0", "x">>
    /\ Raised("Invalid interval unit: ")

\* C3: in every calendar grammar with its other fields valid, parse accepts the
\* hour H and minute M exactly when 0 <= H <= 23 and 0 <= M <= 59; otherwise it
\* raises the invalid-time-format error and returns no schedule.
C3_TimeBounds ==
    (Done /\ form.kind \in {"daily", "day", "weekday", "range"} /\ OtherFieldsValid(form))
    => IF TimeOK(form.time)
       THEN result.type = "calendar"
            /\ \A e \in Entries(result) : e.Hour = form.time.hour /\ e.Minute = form.time.minute
       ELSE Raised(HourError) \/ Raised(MinuteError)

C3_Witness ==
    /\ Done
    /\ form.kind = "weekday" /\ form.day = <<"m", "o", "n">>
    /\ form.time.hour = 23 /\ form.time.minute = 59
    /\ result = Calendar([Weekday |-> 1, Hour |-> 23, Minute |-> 59])

\* C4: for every expression `<N>[st|nd|rd|th] at HH:MM` with a valid time, parse
\* returns the single entry with Day = N when 1 <= N <= 31, and raises the
\* invalid-day-of-month error when N is outside 1..31 (0, 32, 100, ...).
C4_DayOfMonth ==
    (Done /\ form.kind = "day" /\ TimeOK(form.time))
    => IF form.day \in 1..31
       THEN result = Calendar([Day |-> form.day, Hour |-> form.time.hour,
                               Minute |-> form.time.minute])
       ELSE Raised("Invalid day of month: ")

\* C5: for valid weekday names d1, d2 (numbers n1, n2) and a valid time,
\* parse("d1-d2 at HH:MM") returns the list of ((n2 - n1) mod 7) + 1 entries with
\* Weekday n1, n1 + 1, ..., n2 modulo 7 in this order, each with the typed Hour
\* and Minute; mon-fri gives the Weekday values 1, 2, 3, 4, 5.
C5_RangeExpansion ==
    (Done /\ form.kind = "range" /\ form.start \in WeekdayNames /\ form.end \in WeekdayNames
        /\ TimeOK(form.time))
    => LET n1 == WEEKDAYS[form.start]
           n2 == WEEKDAYS[form.end]
           count == ((n2 - n1 + 7) % 7) + 1
       IN  /\ result.type = "calendar" /\ result.list
           /\ Len(result.schedule) = count
           /\ \A i \in 1..count :
                result.schedule[i] = [Weekday |-> (n1 + i - 1) % 7,
                                      Hour |-> form.time.hour, Minute |-> form.time.minute]
           /\ (form.start = <<"m", "o", "n">> /\ form.end = <<"f", "r", "i">>)
                => /\ Len(result.schedule) = 5
                   /\ \A i \in 1..5 : result.schedule[i].Weekday = i

C5_Witness ==
    /\ Done
    /\ form.kind = "range" /\ form.start = <<"s", "a", "t">> /\ form.end = <<"m", "o", "n">>
    /\ result = CalendarList(<<[Weekday |-> 6, Hour |-> 9, Minute |-> 0],
                               [Weekday |-> 0, Hour |-> 9, Minute |-> 0],
                               [Weekday |-> 1, Hour |-> 9, Minute |-> 0]>>)

\* C6: with a valid time, a weekday token that is not in the weekday table makes
\* parse raise the invalid-weekday error, in the single-weekday form and in the
\* range form (one invalid endpoint is enough); the call returns no entry.
C6_InvalidWeekday ==
    (Done /\ form.kind \in {"weekday", "range"} /\ DayFieldInvalid(form) /\ TimeOK(form.time))
    => IF form.kind = "weekday"
       THEN Raised("Invalid weekday: ") /\ result.detail = form.day
       ELSE Raised("Invalid weekday range: ")
            /\ result.detail = form.start \o <<"-">> \o form.end

C6_Witness ==
    /\ Done
    /\ form.kind = "range" /\ form.start = <<"m", "o", "n">> /\ form.end = <<"x", "y", "z">>
    /\ TimeOK(form.time)
    /\ Raised("Invalid weekday range: ")

\* C7: every entry of a calendar schedule that parse returns has Hour in 0..23
\* and Minute in 0..59, has at most one of Weekday and Day, its Weekday (if any)
\* in 0..6 and its Day (if any) in 1..31.
C7_EntryInvariant ==
    (Done /\ result.type = "calendar")
    => \A e \in Entries(result) :
        /\ {"Hour", "Minute"} \subseteq DOMAIN e
        /\ e.Hour \in 0..23 /\ e.Minute \in 0..59
        /\ ~({"Weekday", "Day"} \subseteq DOMAIN e)
        /\ ("Weekday" \in DOMAIN e) => e.Weekday \in 0..6
        /\ ("Day" \in DOMAIN e) => e.Day \in 1..31

C7_Witness ==
    /\ Done
    /\ form.kind = "day" /\ form.day = 31
    /\ result = Calendar([Day |-> 31, Hour |-> 23, Minute |-> 59])

\* C8: in the day-of-month, single-weekday and weekday-range grammars the time
\* is validated first: an expression with an out-of-range time and an invalid
\* day of month or an unknown weekday name raises the invalid-time-format
\* error, and an out-of-range hour is reported before an out-of-range minute.
C8_TimeCheckedFirst ==
    (Done /\ form.kind \in {"day", "weekday", "range"} /\ DayFieldInvalid(form)
        /\ ~TimeOK(form.time))
    => IF form.time.hour > 23
       THEN Raised(HourError) /\ result.detail = str(form.time.hour)
       ELSE Raised(MinuteError) /\ result.detail = str(form.time.minute)

C8_Witness ==
    /\ Done
    /\ form.kind = "day" /\ form.day = 32
    /\ form.time.hour = 24 /\ form.time.minute = 30
    /\ Raised(HourError)

\* the form typed in lower case, with no outer whitespace and single spaces
Canonical(f) == [f EXCEPT !.style = Plain]

C10_EmptyExpression ==
    (Done /\ \A i \in 1..Len(expression) : expression[i] \in Whitespace)
    => /\ result.type = "error"
       /\ result.error = "Schedule expression cannot be empty"
       /\ result.error # ""

C10_Witness ==
    /\ Done
    /\ expression = <<" ", "\t", "\n">>
    /\ result.type = "error"

\* the expression matches none of the grammars of parse
NoGrammar(s) ==
    /\ s \notin {HOURLY, MINUTELY}
    /\ ~interval_attempt(s).matched
    /\ ~daily_match(s).matched
    /\ ~day_match(s).matched
    /\ ~weekday_range_match(s).matched
    /\ ~weekday_match(s).matched

\* C11: a non-empty expression that matches none of the grammars makes parse
\* raise the invalid-schedule-format error, and the message quotes the
\* expression trimmed and lower-cased.
C11_InvalidFormat ==
    (Done /\ Body(form) # <<>> /\ NoGrammar(Body(form)))
    => (Raised("Invalid schedule format: ") /\ result.detail = Body(form))

C11_Witness ==
    /\ Done
    /\ expression = <<" ", "\t", "N", "O", "T", " ", "A", " ", "S", "C", "H", "E", "D", "U", "L", "E", "\n">>
    /\ Raised("Invalid schedule format: ")
    /\ result.detail = <<"n", "o", "t", " ", "a", " ", "s", "c", "h", "e", "d", "u", "l", "e">>

\* C12: parse("hourly") equals parse("every 1h") (3600 seconds), parse("minutely")
\* is the interval of 60 seconds, and a shortcut applies only when the whole
\* normalized expression is the shortcut word: any other literal text gives no
\* interval.
C12_Shortcuts ==
    (Done /\ form.kind = "literal")
    => /\ Body(form) = HOURLY
            => /\ result = Interval(3600)
               /\ result = parse(<<"e", "v", "e", "r", "y", " ", "1", "h">>)
       /\ Body(form) = MINUTELY => result = Interval(60)
       /\ Body(form) \notin {HOURLY, MINUTELY} => result.type = "error"

C12_Witness ==
    /\ Done
    /\ expression = <<"h", "o", "u", "r", "l", "y", " ", "n", "o", "w">>
    /\ Raised("Invalid schedule format: ")

\* the number of a weekday name, read from its first three letters
DayNumber(name) ==
    CASE SubSeq(name, 1, 3) = <<"s", "u", "n">> -> 0
      [] SubSeq(name, 1, 3) = <<"m", "o", "n">> -> 1
      [] SubSeq(name, 1, 3) = <<"t", "u", "e">> -> 2
      [] SubSeq(name, 1, 3) = <<"w", "e", "d">> -> 3
      [] SubSeq(name, 1, 3) = <<"t", "h", "u">> -> 4
      [] SubSeq(name, 1, 3) = <<"f", "r", "i">> -> 5
      [] SubSeq(name, 1, 3) = <<"s", "a", "t">> -> 6

\* C13: in `<name> at HH:MM` every spelling of a weekday (the full name, the
\* three-letter one, and tues, thur, thurs) gives the same Weekday number,
\* sunday being 0 and saturday 6.
C13_WeekdaySpellings ==
    (Done /\ form.kind = "weekday" /\ form.day \in WeekdayNames /\ TimeOK(form.time))
    => /\ result.type = "calendar"
       /\ ~result.list
       /\ result.schedule.Weekday = DayNumber(form.day)

C13_Witness ==
    /\ Done
    /\ form.kind = "weekday" /\ form.day = <<"t", "h", "u", "r", "s">>
    /\ result.type = "calendar"
    /\ result.schedule.Weekday = 4

\* C14: in every calendar grammar a time typed HH:MM:SS is accepted and its
\* seconds are dropped: the outcome is that of the same expression typed
\* without :SS, and no entry of the schedule has a field for the seconds.
C14_SecondsDiscarded ==
    (Done /\ form.kind \in {"daily", "day", "weekday", "range"} /\ form.time.second >= 0)
    => /\ result = parse(Render([form EXCEPT !.time.second = -1]))
       /\ result.type = "calendar"
            => \A e \in Entries(result) :
                    DOMAIN e \subseteq {"Weekday", "Day", "Hour", "Minute"}

C14_Witness ==
    /\ Done
    /\ form.kind = "range" /\ form.time = Time(9, 30, TRUE, 45)
    /\ result.type = "calendar" /\ result.list
    /\ result.schedule[1] = [Weekday |-> 1, Hour |-> 9, Minute |-> 30]

\* C15: an expression that starts with a number of one or two digits, with or
\* without st, nd, rd or th, followed by `at HH:MM`, is handled as a day of
\* month: parse returns an entry with a Day field, or raises the invalid-time or
\* the invalid-day error; it never returns a Weekday entry and never raises
\* the invalid-weekday error.
C15_DayBeforeWeekday ==
    (Done /\ form.kind = "day" /\ form.day <= 99)
    => \/ /\ result.type = "calendar"
          /\ ~result.list
          /\ DOMAIN result.schedule = {"Day", "Hour", "Minute"}
       \/ Raised(HourError)
       \/ Raised(MinuteError)
       \/ Raised("Invalid day of month: ")

C15_Witness ==
    /\ Done
    /\ expression = <<"3", "2", "n", "d", " ", "a", "t", " ", "0", "9", ":", "0", "0">>
    /\ Raised("Invalid day of month: ")

\* C16: parse_raw dispatches on the type field only: type interval returns the
\* interval schedule with the given seconds unchanged, type calendar returns
\* the calendar schedule made of every other key with its value unchanged and
\* unchecked (Hour 99 is returned as is), and any other type, or none, raises
\* the invalid-schedule-type error.
C16_ParseRaw ==
    (Done /\ form.kind = "raw")
    => LET raw_dict == form.raw_dict
           typed == "type" \in DOMAIN raw_dict
       IN  /\ (typed /\ raw_dict["type"] = "interval" /\ "seconds" \in DOMAIN raw_dict)
                => result = [type |-> "interval",
                             schedule |-> [seconds |-> raw_dict["seconds"]]]
           /\ (typed /\ raw_dict["type"] = "calendar")
                => /\ result.type = "calendar"
                   /\ DOMAIN result.schedule = DOMAIN raw_dict \ {"type"}
                   /\ \A k \in DOMAIN result.schedule : result.schedule[k] = raw_dict[k]
           /\ (~typed \/ raw_dict["type"] \notin {"interval", "calendar"})
                => Raised("Invalid schedule type: ")

C16_Witness ==
    /\ Done
    /\ form.kind = "raw"
    /\ form.raw_dict = [type |-> "calendar", Hour |-> 99, Minute |-> 0]
    /\ result.type = "calendar"
    /\ result.schedule = [Hour |-> 99, Minute |-> 0]

\* C19: the plist generator maps the schedule of a task to exactly one trigger
\* key: schedule_type "interval" gives StartInterval equal to the seconds of the
\* schedule and no StartCalendarInterval; schedule_type "calendar" gives
\* StartCalendarInterval equal to the schedule (the one entry, or the list of
\* entries in the same order and number) and no StartInterval; any other
\* schedule_type raises an error and no plist is produced.
C19_OneTriggerKey ==
    (Done /\ form.kind = "task")
    => LET task == form.task
       IN  /\ (task.schedule_type = "interval" /\ ~task.list /\ "seconds" \in DOMAIN task.schedule)
                => /\ result.type = "plist"
                   /\ "StartInterval" \in DOMAIN result.plist
                   /\ result.plist["StartInterval"] = task.schedule["seconds"]
                   /\ "StartCalendarInterval" \notin DOMAIN result.plist
           /\ task.schedule_type = "calendar"
                => /\ result.type = "plist"
                   /\ "StartCalendarInterval" \in DOMAIN result.plist
                   /\ result.list = task.list
                   /\ result.plist["StartCalendarInterval"] = task.schedule
                   /\ "StartInterval" \notin DOMAIN result.plist
           /\ task.schedule_type \notin {"interval", "calendar"}
                => Raised("Invalid schedule_type: ")

\* C20: Config.add_task with a name already in the registry, and
\* Config.remove_task and Config.update_task with a name not in the registry,
\* raise an error and leave the stored registry exactly as it was.
C20_RejectedCallKeepsRegistry ==
    [][/\ (form'.kind = "add_task" /\ form'.name \in DOMAIN config_file.tasks)
            => /\ result' = ValueError("Task '" \o form'.name \o "' already exists", <<>>)
               /\ config_file' = config_file
       /\ (form'.kind \in {"remove_task", "update_task"}
                /\ form'.name \notin DOMAIN config_file.tasks)
            => /\ result' = ValueError("Task '" \o form'.name \o "' not found", <<>>)
               /\ config_file' = config_file]_vars

C20_Witness ==
    /\ form.kind = "add_task"
    /\ form.name = "test_task"
    /\ result = ValueError("Task 'test_task' already exists", <<>>)
    /\ DOMAIN config_file.tasks = {"test_task", "task2"}
    /\ config_file.tasks["test_task"].schedule_type # form.task_config.schedule_type

C18_ParseFailureCommitsNothing ==
    [][(form'.kind = "add" /\ parse(ScheduleText(form'.args, form')).type = "error")
        => /\ result'.type = "return"
           /\ result'.code # 0
           /\ config_file' = config_file
           /\ files' = files
           /\ loaded' = loaded
           /\ trace' = <<>>]_vars

C18_Witness ==
    /\ form.kind = "add"
    /\ form.args.script = Path("/home/a", "backup", ".sh")
    /\ form.args.name = Nothing
    /\ ~form.args.keep_original
    /\ parse(ScheduleText(form.args, form)) = ValueError(HourError, <<"2", "5">>)
    /\ result = [type |-> "return", code |-> 1]
    /\ DOMAIN config_file.tasks = {"job"}
    /\ ScriptsDir \o "/backup.sh" \in DOMAIN files
    /\ trace = <<>>

\* the names for which Config.task_exists answers True on a file
Existing(file) == {n \in LookupNames : Config_task_exists(file, n)}

\* the names added and not removed since, after a call made when they were live
LiveAfter(live, call, raised) ==
    IF call.kind = "add_task" /\ raised = None THEN live \cup {call.name}
    ELSE IF call.kind = "remove_task" /\ raised = None THEN live \ {call.name}
    ELSE live

\* C21: after any sequence of calls of add_task, remove_task and update_task,
\* get_task(n) is non-empty and task_exists(n) is true exactly for the names n
\* that were added by a call that returned and not removed since by a call that
\* returned, and task_count() is the number of these names.  No name is such at
\* the start; a call of add_task that returned adds its name, a call of
\* remove_task that returned takes its name away, and every other call, raising
\* or not, leaves the names as they are.
C21_RegistryTracksCalls ==
    /\ (Existing(config_file) = {} /\ Config_task_count(config_file) = 0)
    /\ [][LET live == LiveAfter(Existing(config_file), form', result')
          IN  /\ Existing(config_file') = live
              /\ \A n \in LookupNames : Config_get_task(config_file', n).some <=> n \in live
              /\ Config_task_count(config_file') = Cardinality(live)
              /\ form'.kind = "get_task" => (result'.value.some <=> form'.name \in live)
              /\ form'.kind = "task_exists" => (result'.value <=> form'.name \in live)
              /\ form'.kind = "task_count" => result'.value = Cardinality(live)]_vars

\* test_task was added, then task2, then test_task was removed
C21_Witness ==
    /\ form = [kind |-> "remove_task", name |-> "test_task"]
    /\ result = None
    /\ Existing(config_file) = {"task2"}
    /\ Config_task_count(config_file) = 1
    /\ ~Config_get_task(config_file, "test_task").some
    /\ Config_get_task(config_file, "task2").some

\* C22: a write of the registry goes to a temp file that is then renamed over
\* config.json: at every point of the write config.json holds the whole of the
\* content it had before or the whole of the new content, the new one once the
\* write has returned and the old one when it has raised, and when the write
\* has ended, returning or raising an Exception, there is no temp file, be
\* there one left by a process that was killed during an earlier write.
C22_AtomicWrite ==
    /\ config_file \in {form.previous, form.config}
    /\ pc \in {"open", "closed"}
        => (temp_file \in DOMAIN files /\ config_file = form.previous)
    /\ pc = "done" => temp_file \notin DOMAIN files
    /\ (pc = "done" /\ result = None) => config_file = form.config
    /\ (pc = "done" /\ result # None) => config_file = form.previous

\* a write that raised after the first chunk, on a disk with the registry of one task
C22_Witness ==
    /\ pc = "done"
    /\ result = OSError
    /\ form.chunks = 1
    /\ trace = <<>>
    /\ form.config = DefaultConfig
    /\ DOMAIN form.previous.tasks = {"test_task"}
    /\ config_file = form.previous
    /\ temp_file \notin DOMAIN files

\* the command remove was confirmed: --yes, or y typed at the prompt
Confirmed(command) == command.args.yes \/ lower(command.stdin.value) = <<"y">>

\* C23: the command remove deletes the script file of the task only when it
\* was confirmed, the task is recorded with script_copied true or with no such
\* field, and --keep-script was not given; the script of a task recorded with
\* script_copied false is in place after remove as it was before.
C23_RemoveKeepsOriginalScript ==
    [][(form'.kind = "remove" /\ form'.args.name \in DOMAIN config_file.tasks)
        => LET task == config_file.tasks[form'.args.name]
               recorded == "script_copied" \in DOMAIN task
           IN  /\ (task.script_path \in DOMAIN files /\ task.script_path \notin DOMAIN files')
                    => /\ Confirmed(form')
                       /\ ~recorded \/ task.script_copied
                       /\ ~form'.args.keep_script
               /\ (recorded /\ ~task.script_copied /\ task.script_path \in DOMAIN files)
                    => /\ task.script_path \in DOMAIN files'
                       /\ files'[task.script_path] = files[task.script_path]]_vars

\* the task backup, added with --keep-original, has been removed: its plists are
\* gone and the script of the user is where it was
C23_Witness ==
    /\ form.kind = "remove"
    /\ form.args = [name |-> "backup", yes |-> TRUE, keep_script |-> FALSE]
    /\ result = [type |-> "return", code |-> 0]
    /\ trace = <<"launchctl unload", "unlink plist", "unlink backup", "config.remove_task">>
    /\ DOMAIN config_file.tasks = {}
    /\ DOMAIN files = DOMAIN UserFiles

\* C24: parse accepts an expression only when the whole of it, trimmed and
\* lower-cased, is of one of the grammars: an expression with text after a
\* schedule is not accepted, and when the schedule before the text is one parse
\* accepts, parse raises the invalid-schedule-format error.
C24_WholeExpression ==
    (Done /\ form.kind \in {"every", "daily", "day", "weekday", "range"} /\ form.tail # <<>>)
    => /\ result.type = "error"
       /\ parse(Render([form EXCEPT !.tail = <<>>])).type # "error"
            => Raised("Invalid schedule format: ")

\* C25: after any sequence of successful add commands without --keep-original
\* and of remove commands, every task of the registry with script_copied true
\* has its script file at its script_path, also when two tasks of different
\* names were added from scripts of the same file name.
C25_CopiedScriptsPresent ==
    \A name \in DOMAIN config_file.tasks :
        LET task == config_file.tasks[name]
        IN  ("script_copied" \in DOMAIN task /\ task.script_copied)
            => task.script_path \in DOMAIN files

\* C26: whenever the command add returns a non-zero code after a failure at the
\* generation of the plist, at launchctl load or at the save of the registry,
\* every file it made during the call has been removed: the copy of the
\* script, the plist in LaunchAgents and the backup plist among the plists of
\* itask.
C26_FailedAddRemovesItsFiles ==
    [][(/\ form'.kind = "add"
        /\ result'.type = "return" /\ result'.code # 0
        /\ "save plist" \in Range(trace'))
        => DOMAIN files' \subseteq DOMAIN files]_vars

\* the name add gives the task: --name, or the stem of the script
TaskName(args) == IF args.name.some /\ args.name.value # "" THEN args.name.value
                  ELSE args.script.stem

\* the place of a call among the steps of add: the script, the plist, the load,
\* the registry; the calls of a cleanup come last
StepOf(call) ==
    CASE call \in {"copy2", "chmod"} -> 1
      [] call \in {"save plist", "backup plist"} -> 2
      [] call = "launchctl load" -> 3
      [] call = "config.add_task" -> 4
      [] OTHER -> 5

\* the calls of the last command were made in the order of the steps
StepsInOrder(calls) ==
    \A i, j \in DOMAIN calls : i < j => StepOf(calls[i]) <= StepOf(calls[j])

\* a command add has put its task into the registry only after its plist was
\* loaded, and its calls were made in the order of the steps
AddLoadsBeforeItSaves ==
    form'.kind = "add"
    => /\ StepsInOrder(trace')
       /\ DOMAIN config_file'.tasks \subseteq DOMAIN config_file.tasks \cup {TaskName(form'.args)}
       /\ TaskName(form'.args) \in DOMAIN config_file'.tasks \ DOMAIN config_file.tasks
            => /\ "launchctl load" \in Range(trace')
               /\ config_file'.tasks[TaskName(form'.args)].label \in loaded'
               /\ result' = [type |-> "return", code |-> 0]

\* C27 as stated: add makes its steps in the order script, plist, launchctl load,
\* registry; a task enters the registry only in a call whose launchctl load
\* succeeded; and after a call that returns a non-zero code the task of the
\* name given is absent from the registry.
C27_FailedAddLeavesTaskAbsent ==
    [][/\ AddLoadsBeforeItSaves
       /\ (form'.kind = "add" /\ result'.type = "return" /\ result'.code # 0)
            => TaskName(form'.args) \notin DOMAIN config_file'.tasks]_vars

\* C27 amended: add makes its steps in the order script, plist, launchctl load,
\* registry; a task enters the registry only in a call whose launchctl load
\* succeeded and that returns 0; and a call that returns a non-zero code leaves
\* the registry as it was, so that the task of the name given is absent unless
\* a task of this name was there before the call.
C27_AddLoadsThenSaves ==
    [][/\ AddLoadsBeforeItSaves
       /\ (form'.kind = "add" /\ result'.type = "return" /\ result'.code # 0)
            => config_file' = config_file]_vars

\* an add that went through all its steps, and one more task is in the registry
C27_Witness ==
    /\ form.kind = "add"
    /\ TaskName(form.args) = "job"
    /\ result = [type |-> "return", code |-> 0]
    /\ trace = <<"copy2", "chmod", "save plist", "backup plist", "launchctl load",
                 "config.add_task">>
    /\ DOMAIN config_file.tasks = {"backup", "job"}
    /\ config_file.tasks["job"].label \in loaded

\* C28: a confirmed remove of a task that is in the registry returns 0 and
\* leaves the task out of the registry and both of its plists deleted, also
\* when launchctl unload fails; a remove of a name that is not in the registry
\* returns a non-zero code and changes neither the registry, nor the files,
\* nor what launchd has loaded.
C28_RemoveAlwaysCompletes ==
    [][form'.kind = "remove"
        => LET name == form'.args.name
           IN  IF name \in DOMAIN config_file.tasks
               THEN Confirmed(form')
                    => LET label == config_file.tasks[name].label
                       IN  /\ result' = [type |-> "return", code |-> 0]
                           /\ name \notin DOMAIN config_file'.tasks
                           /\ get_plist_path(label) \notin DOMAIN files'
                           /\ PlistsDir \o "/" \o label \o ".plist" \notin DOMAIN files'
               ELSE /\ result'.type = "return" /\ result'.code # 0
                    /\ config_file' = config_file
                    /\ files' = files
                    /\ loaded' = loaded]_vars

----------------------------------------------------------------------------
(* The loop of _parse_weekday_range, one statement at a step.  form holds  *)
(* the locals of the call: start_num, end_num, hour, minute, current and   *)
(* schedules; pc is the statement the call is at.                          *)

MaxIterations == 9      \* a call is followed for at most this many iterations

\* the numbers the table WEEKDAYS gives
WeekdayNumbers == {parser.WEEKDAYS[day] : day \in DOMAIN parser.WEEKDAYS}

\* lines 182-187: the two numbers are looked up, schedules = [], current = start_num
LoopInit ==
    /\ parser = ScheduleParser
    /\ \E start_num \in WeekdayNumbers, end_num \in WeekdayNumbers, hour \in {0, 23} :
          form = [kind |-> "_parse_weekday_range",
                  start_num |-> start_num, end_num |-> end_num,
                  hour |-> hour, minute |-> 30,
                  current |-> start_num, schedules |-> <<>>]
    /\ pc = "while"
    /\ result = None
    /\ expression = <<>>
    /\ config_file = DefaultConfig
    /\ files = UserFiles
    /\ loaded = {}
    /\ trace = <<>>
    /\ commands = 0

\* lines 188-193: schedules.append({...})
LoopAppend ==
    /\ pc = "while"
    /\ Len(form.schedules) < MaxIterations
    /\ form' = [form EXCEPT !.schedules =
                    Append(@, [Weekday |-> form.current, Hour |-> form.hour, Minute |-> form.minute])]
    /\ pc' = "if"
    /\ UNCHANGED <<expression, result, config_file, files, loaded, trace, commands, parser>>

\* lines 194-195: `if current == end_num: break`, and the return of lines 199-202
LoopBreak ==
    /\ pc = "if"
    /\ form.current = form.end_num
    /\ result' = CalendarList(form.schedules)
    /\ pc' = "return"
    /\ UNCHANGED <<form, expression, config_file, files, loaded, trace, commands, parser>>

\* the loop stepping with `current = current + 1`
LoopAdvance_NoWrap ==
    /\ pc = "if"
    /\ form.current # form.end_num
    /\ form' = [form EXCEPT !.current = @ + 1]
    /\ pc' = "while"
    /\ UNCHANGED <<expression, result, config_file, files, loaded, trace, commands, parser>>

\* line 196: current = (current + 1) % 7
LoopAdvance ==
    /\ pc = "if"
    /\ form.current # form.end_num
    /\ form' = [form EXCEPT !.current = (@ + 1) % 7]
    /\ pc' = "while"
    /\ UNCHANGED <<expression, result, config_file, files, loaded, trace, commands, parser>>

LoopNext == LoopAppend \/ LoopBreak \/ LoopAdvance

\* the call is one thread of straight-line code: it makes its next step
LoopSpec == LoopInit /\ [][LoopNext]_vars /\ WF_vars(LoopNext)

\* C29: for every pair of weekday numbers of the table the loop of
\* _parse_weekday_range reaches its return; it never makes more than 7
\* iterations, the Weekday values of its entries are pairwise distinct, and it
\* returns between 1 and 7 entries, exactly one when the two numbers are equal.
C29_LoopTerminates ==
    /\ [](/\ Len(form.schedules) <= 7
          /\ \A i, j \in DOMAIN form.schedules :
                i # j => form.schedules[i].Weekday # form.schedules[j].Weekday
          /\ pc = "return"
                => /\ Len(form.schedules) \in 1..7
                   /\ form.start_num = form.end_num => Len(form.schedules) = 1
                   /\ result.schedule = WeekdayLoop(<<>>, form.start_num, form.end_num,
                                                    form.hour, form.minute))
    /\ <>(pc = "return")

\* wed-tue has returned after going round the whole week
C29_Witness ==
    /\ form.kind = "_parse_weekday_range"
    /\ pc = "return"
    /\ form.start_num = 3 /\ form.end_num = 2
    /\ [i \in 1..Len(result.schedule) |-> result.schedule[i].Weekday] = <<3, 4, 5, 6, 0, 1, 2>>

----------------------------------------------------------------------------
(* Two processes, each in Config.add_task on the same config file.  A      *)
(* process reads the file into its own dict (line 116), and later tests,   *)
(* adds and writes what it has read (lines 118-122); between the two any   *)
(* step of the other process can fall.  form holds for each process the    *)
(* task it adds and the dict it has read, pc and result are per process.   *)

Processes == {"p1", "p2"}

\* the task a process adds: its name, and one of two schedules
ProcessTasks ==
    {TaskAt(name, "interval", [seconds |-> Numeral(3600)], 3) : name \in TaskNames \cup {"job"}}
    \cup {TaskAt(name, "calendar", Entry(9, 0), 3) : name \in TaskNames \cup {"job"}}

ProcessesInit ==
    /\ parser = ScheduleParser
    /\ config_file \in Registries
    /\ \E task \in [Processes -> ProcessTasks] :
          /\ task["p1"].name # task["p2"].name
          /\ form = [kind |-> "processes", task |-> task,
                     config |-> [p \in Processes |-> DefaultConfig]]
    /\ pc = [p \in Processes |-> "read"]
    /\ result = [p \in Processes |-> None]
    /\ expression = <<>>
    /\ files = UserFiles
    /\ loaded = {}
    /\ trace = <<>>
    /\ commands = 0

\* line 116: config = self._read_config()
ProcessRead(p) ==
    /\ pc[p] = "read"
    /\ form' = [form EXCEPT !.config[p] = _read_config(config_file)]
    /\ pc' = [pc EXCEPT ![p] = "write"]
    /\ UNCHANGED <<expression, result, config_file, files, loaded, trace, commands, parser>>

\* lines 118-122, on the dict the process has read: the name is looked for in
\* it, and the dict with the task added replaces the file
ProcessWrite(p) ==
    /\ pc[p] = "write"
    /\ LET outcome == Config_add_task(form.config[p], form.task[p], TRUE)
       IN  /\ result' = [result EXCEPT ![p] = outcome.raised]
           /\ config_file' = IF outcome.raised = None THEN outcome.file ELSE config_file
    /\ pc' = [pc EXCEPT ![p] = "done"]
    /\ UNCHANGED <<form, expression, files, loaded, trace, commands, parser>>

ProcessesNext == \E p \in Processes : ProcessRead(p) \/ ProcessWrite(p)

ProcessesSpec == ProcessesInit /\ [][ProcessesNext]_vars

\* C30: when the two processes have both completed add_task, for different
\* names and without an exception, both tasks are in the registry, whatever
\* the order of their reads and writes was.
C30_NoLostUpdate ==
    (\A p \in Processes : pc[p] = "done" /\ result[p] = None)
        => \A p \in Processes : form.task[p].name \in DOMAIN config_file.tasks

====
